---- MODULE Spec2Model ----
(***************************************************************************)
(* Load-balancer observability platform: the warehouse write path of       *)
(* sql_injector.py (SQLDataWarehouse) and the analytics engine of          *)
(* dashboard_engine.py (DashboardEngine).                                  *)
(*                                                                         *)
(* The SQL Server behind pyodbc is the environment: a connection attempt,  *)
(* a statement and a commit may each succeed or fail.  A pyodbc            *)
(* connection used as a context manager ends its transaction on exit:      *)
(* rollback when the block is left by an exception.  Rows executed on a    *)
(* connection are pending until its commit.                                *)
(*                                                                         *)
(* pandas is the environment of the engine.  A data frame is kept as its   *)
(* number of rows and the column it lacks, if any; what an aggregation     *)
(* over a frame without rows does (raise, or give NaN) depends on the      *)
(* pandas build and is fixed per behaviour.                                *)
(***************************************************************************)
EXTENDS Integers, Sequences, FiniteSets, TLC

\* ------------------------------------------------------------------ bounds
MaxRetry == 3
MaxBatch == 2
MaxRecords == 3
MaxCalls == 1
MaxNow == 2
MaxRetention == 2
MaxFrameRows == 2
MaxTableRows == 3
MaxReportRows == 2
MaxConcurrentRetry == 2
MaxConcurrentRecords == 2
MaxSchemaCalls == 3
MaxConfig == 1
MaxConfigRecords == 2
MaxPipelineRecords == 2

\* the constructor's defaults
DefaultBatchSize == 1000
DefaultRetryAttempts == 3

\* ------------------------------------------------------------------ state
VARIABLES
    retry_attempts,   \* SQLDataWarehouse.retry_attempts
    batch_size,       \* SQLDataWarehouse.batch_size
    tables,           \* committed rows of the four managed tables
    now,              \* the store's clock (GETDATE / datetime.now), in days
    ncalls,           \* number of warehouse calls started so far
    call,             \* per calling thread: the warehouse call in progress
    request_logs_df,  \* DashboardEngine.request_logs_df
    server_metrics_df,\* DashboardEngine.server_metrics_df
    engine_call,      \* the engine call made last and how it ended
    pandas,           \* the build's behaviour on frames without rows
    pipeline          \* ObservabilityOrchestrator.run_complete_pipeline: the run

\* What an operation of the engine, and what an operation of the
\* warehouse, leaves alone; neither touches the orchestrator's run.
whVars == <<retry_attempts, batch_size, tables, now, ncalls, call, pipeline>>
engVars == <<request_logs_df, server_metrics_df, engine_call, pandas, pipeline>>

Threads == {1, 2}

TableNames == {"RequestLogs", "ServerMetrics", "AnalyticsReports", "DataQualityMetrics"}

BulkOps == {"insert_request_logs", "insert_server_metrics"}

\* The table an operation's INSERT statement names.
TargetTable(op) ==
    CASE op = "insert_request_logs" -> "RequestLogs"
      [] op = "insert_server_metrics" -> "ServerMetrics"
      [] OTHER -> "AnalyticsReports"

NoError == [attempt |-> -1, at |-> "none"]

NoResults == [tb \in {} |-> 0]

\* No pipeline run: the `results` dictionary of run_complete_pipeline
\* (steps_completed, errors, success, analytics_summary, data_files)
\* beside the position of the run, the value store_data_warehouse
\* returned and the warehouse operations the run called, in order.
NoPipeline ==
    [pc |-> "idle", store_in_database |-> FALSE,
     steps_completed |-> <<>>, errors |-> <<>>,
     has_success |-> FALSE, success |-> FALSE,
     has_summary |-> FALSE, has_data_files |-> FALSE,
     outcome |-> "none", records |-> 0,
     stored |-> FALSE, warehouse_success |-> FALSE,
     ops |-> <<>>]

\* A thread that is not inside a warehouse call.  Beside the locals of the
\* call (records, attempt, i, j, total_inserted, the connection's pending
\* rows) the record keeps what the call did: connection attempts, the
\* statements and commits issued on the current connection, the sleeps,
\* the number of failed attempts and the last exception.  open counts the
\* connections a bulk insert opened that are not closed, open_max is the
\* largest number of them open at one moment: leaving a with-block ends
\* the transaction and leaves the connection open; the connection is
\* closed when no reference to it is left.
IdleCall ==
    [pc |-> "idle", op |-> "none", id |-> 0, records |-> <<>>,
     attempt |-> 0, i |-> 0, j |-> 0, total_inserted |-> 0,
     connected |-> FALSE, pending |-> <<>>,
     open |-> 0, open_max |-> 0,
     connects |-> 0, executes |-> 0, commits |-> 0,
     sleeps |-> <<>>, failures |-> 0, last_error |-> NoError,
     outcome |-> "none", count |-> -1, ok |-> FALSE, raised |-> NoError,
     retention_days |-> 0, cleanup_results |-> NoResults]

Min(a, b) == IF a < b THEN a ELSE b
Max(a, b) == IF a > b THEN a ELSE b

\* range(0, len(records), batch_size): the offsets at which the batches of
\* the loop start; none for a negative step (a step of 0 raises).
BatchStarts(n, bs) == IF bs > 0 THEN {i \in 0..(n - 1) : i % bs = 0} ELSE {}

\* range() raises ValueError for a step of 0.
RangeRaises(bs) == bs = 0

\* Faulty variant: a batch starts one record early.
BatchOverlapping(records, i, bs) ==
    SubSeq(records, IF i > 0 THEN i ELSE 1, Min(i + bs, Len(records)))

\* records[i:i + batch_size] of the batch loop, i 0-based.
Batch(records, i, bs) == SubSeq(records, i + 1, Min(i + bs, Len(records)))

\* A row as the table stores it: created_at defaults to GETDATE().
Row(id, rec, t) == [src |-> id, rec |-> rec, created_at |-> t]

\* Faulty variant: the empty-input guard never fires.
NoRecordsIgnored(records) == FALSE

\* "if not records": the guard in front of _batch_insert.
NoRecords(records) == Len(records) = 0

\* Faulty variant: a linear backoff.
BackoffDelayLinear(attempt) == 2 * attempt

\* time.sleep(2 ** attempt)
BackoffDelay(attempt) == 2 ^ attempt

\* "if attempt == self.retry_attempts - 1"
IsLastAttempt(attempt, retries) == attempt = retries - 1

\* Faulty variant: the exit commits what was executed, exception or not.
ExitOnExceptionCommits(pending) == pending

\* The rows of a transaction that reach the table when the with-block is
\* left by an exception: none, the transaction is rolled back.
ExitOnException(pending) == <<>>

\* ------------------------------------------------------------------ init
\* Rows the store already holds when the warehouse object is constructed:
\* written by earlier runs (src 0), one a day old and one of today.
PreloadChoices == {{}, TableNames}

InitWarehouse ==
    /\ retry_attempts \in 1..MaxRetry
    /\ batch_size \in 1..MaxBatch
    /\ \E pre \in PreloadChoices :
          tables = [tb \in TableNames |->
                      IF tb \in pre THEN <<Row(0, 1, 0), Row(0, 2, 1)>> ELSE <<>>]
    /\ now = 1
    /\ ncalls = 0
    /\ call = [t \in Threads |-> IdleCall]

\* ------------------------------------------------------------------ bulk insert
\* insert_request_logs / insert_server_metrics: the empty-input return, or
\* the entry into _batch_insert (total_inserted = 0, first attempt).
CallInsert(t, op, n) ==
    /\ call[t].pc = "idle"
    /\ ncalls < MaxCalls
    /\ ncalls' = ncalls + 1
    /\ LET records == [k \in 1..n |-> k]
           c == [IdleCall EXCEPT !.op = op, !.id = ncalls + 1, !.records = records]
       IN call' = [call EXCEPT ![t] =
            IF NoRecords(records)
            THEN [c EXCEPT !.pc = "done", !.outcome = "returned", !.count = 0]
            ELSE IF retry_attempts <= 0
            THEN [c EXCEPT !.pc = "done", !.outcome = "returned", !.count = 0]
            ELSE [c EXCEPT !.pc = "attempt", !.total_inserted = 0, !.attempt = 0]]
    /\ UNCHANGED <<retry_attempts, batch_size, tables, now>>

\* An attempt fails at `place`: the with-block is left by the exception
\* and control reaches the except clause.
Failed(c, place) ==
    [c EXCEPT !.pc = "except",
              !.connected = FALSE,
              !.pending = <<>>,
              !.failures = c.failures + 1,
              !.last_error = [attempt |-> c.attempt, at |-> place]]

\* The table after the transaction of call c ended by an exception.
AfterException(c) ==
    [tables EXCEPT ![TargetTable(c.op)] = @ \o ExitOnException(c.pending)]

\* pyodbc.connect succeeds: a new transaction, the batch loop starts at
\* i = 0 (total_inserted keeps the value earlier attempts left in it).
\* The new connection exists before "as conn" rebinds the local name,
\* which drops the connection of the attempt before.
ConnectOk(t) ==
    /\ call[t].pc = "attempt"
    /\ call[t].attempt < retry_attempts
    /\ LET c == [call[t] EXCEPT
                    !.pc = IF BatchStarts(Len(call[t].records), batch_size) # {}
                           THEN "exec" ELSE "commit",
                    !.connected = TRUE, !.pending = <<>>,
                    !.open = 1,
                    !.open_max = Max(@, call[t].open + 1),
                    !.connects = @ + 1, !.executes = 0, !.commits = 0,
                    !.i = 0, !.j = 0]
       IN call' = [call EXCEPT ![t] =
                      IF RangeRaises(batch_size) THEN Failed(c, "range") ELSE c]
    /\ UNCHANGED <<retry_attempts, batch_size, tables, now, ncalls>>

\* pyodbc.connect raises.
ConnectFail(t) ==
    /\ call[t].pc = "attempt"
    /\ call[t].attempt < retry_attempts
    /\ call' = [call EXCEPT ![t] =
          Failed([@ EXCEPT !.connects = @ + 1, !.executes = 0, !.commits = 0],
                 "connect")]
    /\ UNCHANGED <<retry_attempts, batch_size, tables, now, ncalls>>

\* Faulty variant: the batch loop is left after every batch.
LoopDoneEachBatch(lastOfBatch, nexti, n) == lastOfBatch

\* The batch loop is left, for the commit, when the last record of a batch
\* was executed and range(0, len(records), batch_size) has no further offset.
LoopDone(lastOfBatch, nexti, n) == lastOfBatch /\ nexti >= n

\* cursor.execute of the next record of the current batch succeeds; after
\* the last record of a batch, total_inserted += len(batch) and the loop
\* moves to the next batch, or to the commit after the last one.
ExecuteOk(t) ==
    /\ call[t].pc = "exec"
    /\ LET c == call[t]
           batch == Batch(c.records, c.i, batch_size)
           row == Row(c.id, batch[c.j + 1], now)
           lastOfBatch == c.j + 1 = Len(batch)
           nexti == c.i + batch_size
       IN call' = [call EXCEPT ![t] =
            [c EXCEPT !.pending = Append(c.pending, row),
                      !.executes = c.executes + 1,
                      !.j = IF lastOfBatch THEN 0 ELSE c.j + 1,
                      !.i = IF lastOfBatch THEN nexti ELSE c.i,
                      !.total_inserted =
                          IF lastOfBatch THEN c.total_inserted + Len(batch)
                          ELSE c.total_inserted,
                      !.pc = IF LoopDone(lastOfBatch, nexti, Len(c.records))
                             THEN "commit" ELSE "exec"]]
    /\ UNCHANGED <<retry_attempts, batch_size, tables, now, ncalls>>

\* cursor.execute raises.
ExecuteFail(t) ==
    /\ call[t].pc = "exec"
    /\ call' = [call EXCEPT ![t] =
          Failed([@ EXCEPT !.executes = @ + 1], "execute")]
    /\ tables' = AfterException(call[t])
    /\ UNCHANGED <<retry_attempts, batch_size, now, ncalls>>

\* conn.commit succeeds: the pending rows become table rows and
\* _batch_insert returns total_inserted; the frame and its conn are gone.
CommitOk(t) ==
    /\ call[t].pc = "commit"
    /\ LET c == call[t]
       IN /\ tables' = [tables EXCEPT ![TargetTable(c.op)] = @ \o c.pending]
          /\ call' = [call EXCEPT ![t] =
                [c EXCEPT !.pc = "done", !.commits = c.commits + 1,
                          !.pending = <<>>, !.connected = FALSE,
                          !.open = 0,
                          !.outcome = "returned", !.count = c.total_inserted]]
    /\ UNCHANGED <<retry_attempts, batch_size, now, ncalls>>

\* conn.commit raises.
CommitFail(t) ==
    /\ call[t].pc = "commit"
    /\ call' = [call EXCEPT ![t] =
          Failed([@ EXCEPT !.commits = @ + 1], "commit")]
    /\ tables' = AfterException(call[t])
    /\ UNCHANGED <<retry_attempts, batch_size, now, ncalls>>

\* The except clause: re-raise on the last attempt, otherwise sleep
\* 2 ** attempt and go to the next attempt.
Backoff(t) ==
    /\ call[t].pc = "except"
    /\ LET c == call[t]
       IN call' = [call EXCEPT ![t] =
            IF IsLastAttempt(c.attempt, retry_attempts)
            THEN [c EXCEPT !.pc = "done", !.outcome = "raised",
                           !.raised = c.last_error]
            ELSE [c EXCEPT !.pc = "attempt",
                           !.sleeps = Append(c.sleeps, BackoffDelay(c.attempt)),
                           !.attempt = c.attempt + 1]]
    /\ UNCHANGED <<retry_attempts, batch_size, tables, now, ncalls>>

\* ------------------------------------------------------------------ report
\* What a report document may hold under 'request_kpis': nothing, a mapping
\* without 'total_requests', or a mapping with it.
ReportInputs ==
    {[has_request_kpis |-> FALSE, has_total |-> FALSE, total_requests |-> 0],
     [has_request_kpis |-> TRUE, has_total |-> FALSE, total_requests |-> 0],
     [has_request_kpis |-> TRUE, has_total |-> TRUE, total_requests |-> 2]}

\* record_count = report_data['request_kpis'].get('total_requests', 0), or 0
RecordCount(report_data) ==
    IF report_data.has_request_kpis /\ report_data.has_total
    THEN report_data.total_requests ELSE 0

StoreFailPoints == {"none", "connect", "execute", "commit"}

\* The number of statements of each kind store_analytics_report issues
\* when its single try block fails at failAt ("none": it does not fail).
StoreConnects(failAt) == 1
StoreExecutes(failAt) == IF failAt = "connect" THEN 0 ELSE 1
StoreCommits(failAt) == IF failAt \in {"connect", "execute"} THEN 0 ELSE 1

\* Faulty variant: True is returned whatever happened.
StoreReturnsTrue(failAt) == TRUE

\* "return True" after the with-block, "return False" in the except clause.
StoreReturns(failAt) == failAt = "none"

\* The report rows the call leaves committed.
StoreCommitted(row, failAt) == IF failAt = "none" THEN <<row>> ELSE <<>>

\* store_analytics_report: one try block, no loop around it.
StoreAnalyticsReport(t, report_data, failAt) ==
    /\ call[t].pc = "idle"
    /\ ncalls < MaxCalls
    /\ ncalls' = ncalls + 1
    /\ LET id == ncalls + 1
           row == Row(id, RecordCount(report_data), now)
       IN /\ tables' = [tables EXCEPT !["AnalyticsReports"] =
                            @ \o StoreCommitted(row, failAt)]
          /\ call' = [call EXCEPT ![t] =
                [IdleCall EXCEPT !.pc = "done", !.op = "store_analytics_report",
                    !.id = id,
                    !.connects = StoreConnects(failAt),
                    !.executes = StoreExecutes(failAt),
                    !.commits = StoreCommits(failAt),
                    !.failures = IF failAt = "none" THEN 0 ELSE 1,
                    !.last_error = IF failAt = "none" THEN NoError
                                   ELSE [attempt |-> 0, at |-> failAt],
                    !.outcome = "returned",
                    !.ok = StoreReturns(failAt)]]
    /\ UNCHANGED <<retry_attempts, batch_size, now>>

\* ------------------------------------------------------------------ cleanup
\* cleanup_tables, in the order the dict is iterated.
CleanupOrder == <<"RequestLogs", "ServerMetrics", "AnalyticsReports", "DataQualityMetrics">>

CleanupFailPoints == {"none", "connect", "commit"} \cup TableNames

\* cutoff_date = datetime.now() - timedelta(days=retention_days)
CutoffDate(today, retention_days) == today - retention_days

\* Faulty variant: the cutoff itself is deleted too.
IsOldInclusive(row, cutoff) == row.created_at <= cutoff

\* "WHERE <date_column> < ?"
IsOld(row, cutoff) == row.created_at < cutoff

Old(rows, cutoff) == SelectSeq(rows, LAMBDA r : IsOld(r, cutoff))
Recent(rows, cutoff) == SelectSeq(rows, LAMBDA r : ~IsOld(r, cutoff))

\* The tables whose DELETE was executed before the call failed at failAt.
Deleted(failAt) ==
    CASE failAt = "connect" -> {}
      [] failAt \in {"none", "commit"} -> TableNames
      [] OTHER -> {CleanupOrder[k] : k \in {k \in 1..4 :
                      \E m \in (k + 1)..4 : CleanupOrder[m] = failAt}}

\* cleanup_results[table] = cursor.rowcount for every executed DELETE.
CleanupResults(tbls, cutoff, failAt) ==
    [tb \in Deleted(failAt) |-> Len(Old(tbls[tb], cutoff))]

\* Faulty variant: every DELETE is committed on its own.
CleanupCommittedPerTable(tbls, cutoff, failAt) ==
    [tb \in TableNames |->
        IF failAt = "none" \/ tb \in Deleted(failAt)
        THEN Recent(tbls[tb], cutoff) ELSE tbls[tb]]

\* The tables after the call: the deletes are committed together by the one
\* conn.commit() after the loop; an exception before it rolls them back.
CleanupCommitted(tbls, cutoff, failAt) ==
    IF failAt = "none"
    THEN [tb \in TableNames |-> Recent(tbls[tb], cutoff)]
    ELSE tbls

\* cleanup_old_data
CleanupOldData(t, retention_days, failAt) ==
    /\ call[t].pc = "idle"
    /\ ncalls < MaxCalls
    /\ ncalls' = ncalls + 1
    /\ LET cutoff == CutoffDate(now, retention_days)
       IN /\ tables' = CleanupCommitted(tables, cutoff, failAt)
          /\ call' = [call EXCEPT ![t] =
                [IdleCall EXCEPT !.pc = "done", !.op = "cleanup_old_data",
                    !.id = ncalls + 1,
                    !.retention_days = retention_days,
                    !.connects = 1,
                    !.executes = Cardinality(Deleted(failAt))
                                 + (IF failAt \in TableNames THEN 1 ELSE 0),
                    !.commits = IF failAt \in {"none", "commit"} THEN 1 ELSE 0,
                    !.failures = IF failAt = "none" THEN 0 ELSE 1,
                    !.last_error = IF failAt = "none" THEN NoError
                                   ELSE [attempt |-> 0, at |-> failAt],
                    !.outcome = IF failAt = "none" THEN "returned" ELSE "raised",
                    !.raised = IF failAt = "none" THEN NoError
                               ELSE [attempt |-> 0, at |-> failAt],
                    !.cleanup_results = CleanupResults(tables, cutoff, failAt)]]
    /\ UNCHANGED <<retry_attempts, batch_size, now>>

\* The caller has its result; the thread is free for the next call.
Finish(t) ==
    /\ call[t].pc = "done"
    /\ call' = [call EXCEPT ![t] = IdleCall]
    /\ UNCHANGED <<retry_attempts, batch_size, tables, now, ncalls>>

\* A day passes.  The clock has day resolution: it is advanced between
\* calls, so the rows one call executes carry one created_at.
Tick ==
    /\ now < MaxNow
    /\ \A t \in Threads : call[t].pc = "idle"
    /\ now' = now + 1
    /\ UNCHANGED <<retry_attempts, batch_size, tables, ncalls, call>>

\* ------------------------------------------------------------------ schema
\* table_definitions, in list order.  In the runs that set the schema up
\* the domain of tables is the set of tables that exist in the database.
SchemaOrder == <<"RequestLogs", "ServerMetrics", "AnalyticsReports", "DataQualityMetrics">>

\* Where the environment makes the call fail: at the connect, at the
\* statement of a table, at the commit, or nowhere.
SchemaFailPoints == {"none", "connect", "commit"} \cup TableNames

\* Faulty variant: a plain CREATE TABLE, which the server rejects for a
\* name that is taken.
CreateTableUnguarded(existing, tb) ==
    [rejected |-> tb \in existing, created |-> {tb} \ existing]

\* "IF OBJECT_ID('X') IS NULL CREATE TABLE X (...)": nothing is done for a
\* table that exists.
CreateTable(existing, tb) ==
    [rejected |-> FALSE, created |-> {tb} \ existing]

\* The index in table_definitions of the first cursor.execute that raises,
\* 0 when none does.
SchemaFailedStatement(existing, failAt) ==
    LET bad == {k \in 1..Len(SchemaOrder) :
                    \/ failAt = SchemaOrder[k]
                    \/ CreateTable(existing, SchemaOrder[k]).rejected}
    IN IF failAt = "connect" \/ bad = {} THEN 0
       ELSE CHOOSE k \in bad : \A m \in bad : k <= m

\* Where the try block of create_database_schema raises ("none": nowhere).
SchemaError(existing, failAt) ==
    IF failAt = "connect" THEN "connect"
    ELSE IF SchemaFailedStatement(existing, failAt) # 0
         THEN SchemaOrder[SchemaFailedStatement(existing, failAt)]
         ELSE failAt

\* The statements executed, the failing one included.
SchemaExecutes(existing, failAt) ==
    IF failAt = "connect" THEN 0
    ELSE IF SchemaFailedStatement(existing, failAt) # 0
         THEN SchemaFailedStatement(existing, failAt)
         ELSE Len(SchemaOrder)

\* The tables the statements of one call create, the call completing.
SchemaCreated(existing) ==
    UNION {CreateTable(existing, SchemaOrder[k]).created : k \in 1..Len(SchemaOrder)}

\* The database after the call: the one conn.commit() after the loop makes
\* the new tables, empty, permanent; an exception before it rolls the
\* transaction back.
SchemaCommitted(tbls, failAt) ==
    IF SchemaError(DOMAIN tbls, failAt) = "none"
    THEN [tb \in DOMAIN tbls \cup SchemaCreated(DOMAIN tbls) |->
             IF tb \in DOMAIN tbls THEN tbls[tb] ELSE <<>>]
    ELSE tbls

\* create_database_schema: one try block; the exception is logged and
\* raised again.
CreateDatabaseSchema(t, failAt) ==
    /\ call[t].pc = "idle"
    /\ ncalls < MaxSchemaCalls
    /\ ncalls' = ncalls + 1
    /\ LET error == SchemaError(DOMAIN tables, failAt)
       IN /\ tables' = SchemaCommitted(tables, failAt)
          /\ call' = [call EXCEPT ![t] =
                [IdleCall EXCEPT !.pc = "done", !.op = "create_database_schema",
                    !.id = ncalls + 1,
                    !.connects = 1,
                    !.executes = SchemaExecutes(DOMAIN tables, failAt),
                    !.commits = IF error \in {"none", "commit"} THEN 1 ELSE 0,
                    !.failures = IF error = "none" THEN 0 ELSE 1,
                    !.last_error = IF error = "none" THEN NoError
                                   ELSE [attempt |-> 0, at |-> error],
                    !.outcome = IF error = "none" THEN "returned" ELSE "raised",
                    !.raised = IF error = "none" THEN NoError
                               ELSE [attempt |-> 0, at |-> error]]]
    /\ UNCHANGED <<retry_attempts, batch_size, now>>

\* ------------------------------------------------------------------ probe
\* Where test_connection fails: at the connect, at the SELECT, at the
\* fetch, at the exit of the with-block, or nowhere.
ProbeFailPoints == {"none", "connect", "execute", "fetch", "exit"}

ProbeExecutes(failAt) == IF failAt = "connect" THEN 0 ELSE 1

\* Faulty variant: the exception leaves the method.
ProbeOutcomeUncaught(failAt) == IF failAt = "none" THEN "returned" ELSE "raised"

\* "except Exception as e: ... return False": every failure ends in a return.
ProbeOutcome(failAt) == "returned"

\* "return True" in the with-block, "return False" in the except clause.
ProbeReturns(failAt) == failAt = "none"

\* test_connection: one try block, no loop around it, one SELECT.
TestConnection(t, failAt) ==
    /\ call[t].pc = "idle"
    /\ ncalls < MaxSchemaCalls
    /\ ncalls' = ncalls + 1
    /\ call' = [call EXCEPT ![t] =
          [IdleCall EXCEPT !.pc = "done", !.op = "test_connection",
              !.id = ncalls + 1,
              !.connects = 1,
              !.executes = ProbeExecutes(failAt),
              !.failures = IF failAt = "none" THEN 0 ELSE 1,
              !.last_error = IF failAt = "none" THEN NoError
                             ELSE [attempt |-> 0, at |-> failAt],
              !.outcome = ProbeOutcome(failAt),
              !.raised = IF ProbeOutcome(failAt) = "raised"
                         THEN [attempt |-> 0, at |-> failAt] ELSE NoError,
              !.ok = ProbeOutcome(failAt) = "returned" /\ ProbeReturns(failAt)]]
    /\ UNCHANGED <<retry_attempts, batch_size, tables, now>>

\* ------------------------------------------------------------------ engine
\* A data frame attribute: None, or a frame read by pd.read_csv.
None == [loaded |-> FALSE, rows |-> 0, missing |-> "none"]
Frame(n, m) == [loaded |-> TRUE, rows |-> n, missing |-> m]

\* The columns of each computation, in the order the code reads them.
RequestKpiColumns == {"response_time_ms", "status_code", "retry_rate"}
ServerKpiColumns == {"cpu_usage_percent", "backend_health_failures"}
TrafficColumns == {"response_time_ms"}

\* What a CSV path may hold: no file, a file without a header line, a file
\* whose header lacks the timestamp column, or a table of n rows that lacks
\* at most one of the other columns.
RequestSources ==
    {[kind |-> k, rows |-> 0, missing |-> "none"] :
        k \in {"absent", "no_header", "no_timestamp"}}
    \cup {[kind |-> "table", rows |-> n, missing |-> m] :
            n \in 0..MaxFrameRows, m \in {"none", "retry_rate", "response_time_ms"}}
ServerSources ==
    {[kind |-> k, rows |-> 0, missing |-> "none"] :
        k \in {"absent", "no_header", "no_timestamp"}}
    \cup {[kind |-> "table", rows |-> n, missing |-> m] :
            n \in 0..MaxFrameRows,
            m \in {"none", "cpu_usage_percent", "backend_health_failures"}}

\* pd.read_csv(path, parse_dates=["timestamp"]): the exception it raises,
\* "none" when it returns a frame.
ReadCsvError(source) ==
    CASE source.kind = "absent" -> "FileNotFoundError"
      [] source.kind = "no_header" -> "EmptyDataError"
      [] source.kind = "no_timestamp" -> "ValueError"
      [] OTHER -> "none"

NoEngineCall ==
    [op |-> "none", outcome |-> "none", parts |-> {},
     request_log_entries |-> -1, server_metric_entries |-> -1]

EngineRaised(op, error) == [NoEngineCall EXCEPT !.op = op, !.outcome = error]

EngineReturned(op, parts, req, srv) ==
    [NoEngineCall EXCEPT !.op = op, !.outcome = "returned", !.parts = parts,
        !.request_log_entries = req.rows, !.server_metric_entries = srv.rows]

\* load_data: the two assignments in order; an exception of the second
\* read leaves the first assignment in place.
LoadData(request_source, server_source) ==
    /\ engine_call.op = "none"
    /\ LET e1 == ReadCsvError(request_source)
           e2 == ReadCsvError(server_source)
       IN /\ request_logs_df' =
                 IF e1 = "none"
                 THEN Frame(request_source.rows, request_source.missing)
                 ELSE request_logs_df
          /\ server_metrics_df' =
                 IF e1 = "none" /\ e2 = "none"
                 THEN Frame(server_source.rows, server_source.missing)
                 ELSE server_metrics_df
          /\ engine_call' =
                 IF e1 # "none" THEN EngineRaised("load_data", e1)
                 ELSE IF e2 # "none" THEN EngineRaised("load_data", e2)
                 ELSE [NoEngineCall EXCEPT !.op = "load_data", !.outcome = "returned"]
    /\ UNCHANGED pandas

\* Faulty variant: "and" in place of "or".
EitherAbsentBoth(req, srv) == ~req.loaded /\ ~srv.loaded

\* "if self.request_logs_df is None or self.server_metrics_df is None"
EitherAbsent(req, srv) == ~req.loaded \/ ~srv.loaded

\* compute_request_kpis: the exception it raises, "none" when it returns.
RequestKpisError(req, lib) ==
    IF ~req.loaded THEN "ValueError"
    ELSE IF req.rows = 0 /\ lib.empty_timestamp_raises THEN "AttributeError"
    ELSE IF req.missing \in RequestKpiColumns THEN "KeyError"
    ELSE "none"

\* compute_server_kpis
ServerKpisError(srv, lib) ==
    IF ~srv.loaded THEN "ValueError"
    ELSE IF srv.missing \in ServerKpiColumns THEN "KeyError"
    ELSE IF srv.rows = 0 /\ lib.empty_groupby_raises THEN "TypeError"
    ELSE "none"

\* compute_traffic_patterns
TrafficPatternsError(req, lib) ==
    IF ~req.loaded THEN "ValueError"
    ELSE IF req.rows = 0 /\ lib.empty_timestamp_raises THEN "AttributeError"
    ELSE IF req.missing \in TrafficColumns THEN "KeyError"
    ELSE "none"

\* detect_anomalies: response_time_ms, then the hour of the timestamp, then
\* the server frame's backend_health_failures.
AnomaliesError(req, srv, lib) ==
    IF EitherAbsent(req, srv) THEN "ValueError"
    ELSE IF req.missing = "response_time_ms" THEN "KeyError"
    ELSE IF req.rows = 0 /\ lib.empty_timestamp_raises THEN "AttributeError"
    ELSE IF srv.missing = "backend_health_failures" THEN "KeyError"
    ELSE "none"

\* The entries of the report literal, in evaluation order, each with the
\* exception its expression raises.
ReportEntries(req, srv, lib) ==
    << [key |-> "report_metadata",
        error |-> IF req.rows = 0 /\ lib.empty_timestamp_raises
                  THEN "AttributeError" ELSE "none"],
       [key |-> "request_kpis", error |-> RequestKpisError(req, lib)],
       [key |-> "server_kpis", error |-> ServerKpisError(srv, lib)],
       [key |-> "traffic_patterns", error |-> TrafficPatternsError(req, lib)],
       [key |-> "anomalies", error |-> AnomaliesError(req, srv, lib)] >>

\* The index of the first entry that raises, 0 when none does.
FirstFailure(entries) ==
    IF \E k \in 1..Len(entries) : entries[k].error # "none"
    THEN CHOOSE k \in 1..Len(entries) :
            /\ entries[k].error # "none"
            /\ \A m \in 1..(k - 1) : entries[m].error = "none"
    ELSE 0

\* Faulty variant: a failing entry is skipped over and the entries before it are
\* returned.
ReportOutcomePartial(op, entries, failed, req, srv) ==
    EngineReturned(op,
        {entries[k].key : k \in 1..(IF failed = 0 THEN Len(entries) ELSE failed - 1)},
        req, srv)

\* What generate_comprehensive_report hands to its caller when the entry
\* at index `failed` raised (0: none did): the exception leaves the method,
\* the report literal is never bound.
ReportOutcome(op, entries, failed, req, srv) ==
    IF failed = 0
    THEN EngineReturned(op, {entries[k].key : k \in 1..Len(entries)}, req, srv)
    ELSE EngineRaised(op, entries[failed].error)

\* The four computations and the report assembly; none assigns to the
\* engine's frames (each works on df.copy()).
ComputeOps == {"compute_request_kpis", "compute_server_kpis",
               "compute_traffic_patterns", "detect_anomalies",
               "generate_comprehensive_report"}

Single(op, key, error, req, srv) ==
    IF error = "none" THEN EngineReturned(op, {key}, req, srv)
    ELSE EngineRaised(op, error)

ComputeRequestKpis ==
    /\ engine_call.op = "none"
    /\ engine_call' = Single("compute_request_kpis", "request_kpis",
            RequestKpisError(request_logs_df, pandas),
            request_logs_df, server_metrics_df)
    /\ UNCHANGED <<request_logs_df, server_metrics_df, pandas>>

ComputeServerKpis ==
    /\ engine_call.op = "none"
    /\ engine_call' = Single("compute_server_kpis", "server_kpis",
            ServerKpisError(server_metrics_df, pandas),
            request_logs_df, server_metrics_df)
    /\ UNCHANGED <<request_logs_df, server_metrics_df, pandas>>

ComputeTrafficPatterns ==
    /\ engine_call.op = "none"
    /\ engine_call' = Single("compute_traffic_patterns", "traffic_patterns",
            TrafficPatternsError(request_logs_df, pandas),
            request_logs_df, server_metrics_df)
    /\ UNCHANGED <<request_logs_df, server_metrics_df, pandas>>

DetectAnomalies ==
    /\ engine_call.op = "none"
    /\ engine_call' = Single("detect_anomalies", "anomalies",
            AnomaliesError(request_logs_df, server_metrics_df, pandas),
            request_logs_df, server_metrics_df)
    /\ UNCHANGED <<request_logs_df, server_metrics_df, pandas>>

GenerateComprehensiveReport ==
    /\ engine_call.op = "none"
    /\ engine_call' =
          IF EitherAbsent(request_logs_df, server_metrics_df)
          THEN EngineRaised("generate_comprehensive_report", "ValueError")
          ELSE LET entries == ReportEntries(request_logs_df, server_metrics_df, pandas)
               IN ReportOutcome("generate_comprehensive_report", entries,
                      FirstFailure(entries), request_logs_df, server_metrics_df)
    /\ UNCHANGED <<request_logs_df, server_metrics_df, pandas>>

\* The caller has the result (or the exception) of its engine call.
EngineReturn ==
    /\ engine_call.op # "none"
    /\ engine_call' = NoEngineCall
    /\ UNCHANGED <<request_logs_df, server_metrics_df, pandas>>

InitEngine ==
    /\ request_logs_df = None
    /\ server_metrics_df = None
    /\ engine_call = NoEngineCall
    /\ pandas \in [empty_timestamp_raises : BOOLEAN, empty_groupby_raises : BOOLEAN]
    /\ pipeline = NoPipeline

\* ------------------------------------------------------------------ analytics
\* The values the engine computes from frames whose columns are all there.
\* A frame read from a table keeps its rows beside their number.  Numbers
\* with decimals are integers in thousandths (response_time_ms 1234 is
\* 1.234 ms, cpu_usage_percent 80004 is 80.004 %); a value rounded to two
\* decimals is an integer in hundredths; a timestamp is a number of ticks.
TicksPerSecond == 2
SecondsPerHour == 3600
HoursPerDay == 24

RequestRow(ts, rt, sc) ==
    [timestamp |-> ts, response_time_ms |-> rt, status_code |-> sc]
ServerRow(id, cpu, mem) ==
    [server_id |-> id, cpu_usage_percent |-> cpu, memory_usage_percent |-> mem]

\* A frame pd.read_csv built from a table with every column.
Table(data) ==
    [loaded |-> TRUE, rows |-> Len(data), missing |-> "none", data |-> data]

\* The rows of a frame (None and the frames kept by size alone have none).
DataOf(frame) == IF "data" \in DOMAIN frame THEN frame.data ELSE <<>>

RECURSIVE SumSeq(_)
SumSeq(s) == IF s = <<>> THEN 0 ELSE Head(s) + SumSeq(Tail(s))

Column(data, col) == [k \in 1..Len(data) |-> data[k][col]]

SeqMax(s) == CHOOSE x \in {s[k] : k \in 1..Len(s)} : \A k \in 1..Len(s) : s[k] <= x
SeqMin(s) == CHOOSE x \in {s[k] : k \in 1..Len(s)} : \A k \in 1..Len(s) : x <= s[k]

\* Faulty variant: the sample is taken in file order.
SortedMissing(s) == s

\* The sorted copy of a sample (insertion into the sorted tail).
RECURSIVE Sorted(_)
Sorted(s) ==
    IF s = <<>> THEN <<>>
    ELSE LET rest == Sorted(Tail(s))
             below == SelectSeq(rest, LAMBDA x : x < Head(s))
             above == SelectSeq(rest, LAMBDA x : x >= Head(s))
         IN below \o <<Head(s)>> \o above

\* num / den rounded to the nearest integer, a tie to the even neighbour
\* (num >= 0, den > 0).
RoundHalfEven(num, den) ==
    LET q == num \div den
        r == num % den
    IN IF 2 * r < den THEN q
       ELSE IF 2 * r > den THEN q + 1
       ELSE IF q % 2 = 0 THEN q ELSE q + 1

\* A float the engine returns: NaN, or a number in hundredths.
NaN == [nan |-> TRUE, value |-> 0]
Num(v) == [nan |-> FALSE, value |-> v]

\* round(x, 2) of x = num / den thousandths: hundredths.
Round2(num, den) == RoundHalfEven(num, 10 * den)

\* Series.mean() of a column in thousandths, rounded to 2 decimals.
Mean2(s) == Round2(SumSeq(s), Len(s))

\* Series.quantile(q), q in percent, linear interpolation: the position
\* (n - 1) * q / 100 in the sorted sample, between its two neighbours; as
\* the numerator over 100, in thousandths.
QuantileTimes100(s, q) ==
    LET x == Sorted(s)
        pos == (Len(s) - 1) * q
        lo == pos \div 100
        frac == pos % 100
        a == x[lo + 1]
        b == IF lo + 2 <= Len(x) THEN x[lo + 2] ELSE a
    IN 100 * a + (b - a) * frac

Quantile2(s, q) == Round2(QuantileTimes100(s, q), 100)

\* Faulty variant: "> 400".
IsErrorAbove(status_code) == status_code > 400

\* "status_code >= 400"
IsError(status_code) == status_code >= 400

\* (column >= 400).mean() * 100 of a group of rows, as a fraction
\* [num, den] in percent.
ErrorCount(data) == Len(SelectSeq(data, LAMBDA r : IsError(r.status_code)))

\* round((df['status_code'] >= 400).mean() * 100, 2)
ErrorRatePercent2(data) == RoundHalfEven(100 * 100 * ErrorCount(data), Len(data))

\* (max - min).total_seconds(), in ticks
SpanTicks(data) ==
    SeqMax(Column(data, "timestamp")) - SeqMin(Column(data, "timestamp"))

\* Faulty variant: the span is used as it is.
SpanFloorMissing(span) == span

\* max(total_time_seconds, 1), in ticks
SpanFloor(span) == IF span > TicksPerSecond THEN span ELSE TicksPerSecond

\* round(len(df) / total_time_seconds, 2); the division raises on a zero
\* denominator (RequestKpisFailure) and there is no value then.
RequestsPerSecond2(n, ticks) ==
    IF ticks = 0 THEN NaN
    ELSE Num(RoundHalfEven(100 * n * TicksPerSecond, ticks))

\* compute_request_kpis on a frame with rows: the keys computed from
\* timestamp, response_time_ms and status_code (the other keys are
\* aggregates of columns no statement here reads).  A frame without rows
\* gives NaN where it does not raise.
RequestKpis(data) ==
    IF data = <<>>
    THEN [total_requests |-> 0, requests_per_second |-> NaN,
          average_response_time_ms |-> NaN, p95_response_time_ms |-> NaN,
          p99_response_time_ms |-> NaN, error_rate_percent |-> NaN]
    ELSE LET rt == Column(data, "response_time_ms")
         IN [total_requests |-> Len(data),
             requests_per_second |->
                 RequestsPerSecond2(Len(data), SpanFloor(SpanTicks(data))),
             average_response_time_ms |-> Num(Mean2(rt)),
             p95_response_time_ms |-> Num(Quantile2(rt, 95)),
             p99_response_time_ms |-> Num(Quantile2(rt, 99)),
             error_rate_percent |-> Num(ErrorRatePercent2(data))]

\* df.groupby("server_id"): the ids present and the rows of each.
ServerIds(data) == {data[k].server_id : k \in 1..Len(data)}
RowsOfServer(data, id) == SelectSeq(data, LAMBDA r : r.server_id = id)

\* df.groupby("server_id").agg({...: "mean"}).round(2)
ServerUtil(data) ==
    [id \in ServerIds(data) |->
        [cpu_usage_percent |->
             Mean2(Column(RowsOfServer(data, id), "cpu_usage_percent")),
         memory_usage_percent |->
             Mean2(Column(RowsOfServer(data, id), "memory_usage_percent"))]]

\* "> 80" on the rounded frame, in hundredths
Above80(value2) == value2 > 80 * 100

\* compute_server_kpis: the utilisation keys.
ServerKpis(data) ==
    LET server_util == ServerUtil(data)
    IN [average_cpu_usage |->
            IF data = <<>> THEN NaN ELSE Num(Mean2(Column(data, "cpu_usage_percent"))),
        average_memory_usage |->
            IF data = <<>> THEN NaN
            ELSE Num(Mean2(Column(data, "memory_usage_percent"))),
        high_cpu_servers |->
            {id \in ServerIds(data) : Above80(server_util[id].cpu_usage_percent)},
        high_memory_servers |->
            {id \in ServerIds(data) : Above80(server_util[id].memory_usage_percent)},
        server_utilization |-> server_util]

\* df['timestamp'].dt.hour
HourOf(ts) == (ts \div (TicksPerSecond * SecondsPerHour)) % HoursPerDay

Hours(data) == {HourOf(data[k].timestamp) : k \in 1..Len(data)}
RowsOfHour(data, h) == SelectSeq(data, LAMBDA r : HourOf(r.timestamp) = h)

\* compute_traffic_patterns: the hourly keys.
TrafficPatterns(data) ==
    [hourly_traffic_volume |-> [h \in Hours(data) |-> Len(RowsOfHour(data, h))],
     hourly_avg_latency |->
        [h \in Hours(data) |-> Mean2(Column(RowsOfHour(data, h), "response_time_ms"))]]

\* Series.std(): ddof = 1, the divisor of the squared deviations is N - 1.
StdDivisor(n) == n - 1

\* n * sum(x^2) - sum(x)^2 = n * (the sum of the squared deviations)
SquareSum(s) == SumSeq([k \in 1..Len(s) |-> s[k] * s[k]])
Spread(s) == Len(s) * SquareSum(s) - SumSeq(s) * SumSeq(s)

\* x > mean + 3 * std, without the square root:
\*   n*x - S > 3 * n * sqrt(Q / (n*d))   with S the sum, Q the spread,
\* d the divisor; with d = 0 the deviation is NaN and nothing is above.
AboveThreshold(x, s) ==
    LET n == Len(s)
        d == StdDivisor(n)
        dev == n * x - SumSeq(s)
    IN /\ d > 0
       /\ dev > 0
       /\ dev * dev * d > 9 * n * Spread(s)

\* round(mean + 3 * std, 2): the hundredths t whose interval
\* [t - 1/2, t + 1/2] holds the threshold (the even one of two).
SlowThreshold2(s) ==
    LET n == Len(s)
        d == StdDivisor(n)
        S == SumSeq(s)
        R2 == 9 * n * Spread(s)
        fits(t) ==
            LET lo == n * (10 * t - 5) - S
                hi == n * (10 * t + 5) - S
            IN /\ (lo <= 0 \/ lo * lo * d <= R2)
               /\ hi >= 0
               /\ R2 <= hi * hi * d
        cands == {t \in 0..((4 * SeqMax(s)) \div 10 + 1) : fits(t)}
    IN IF n = 0 \/ d <= 0 THEN NaN
       ELSE IF Cardinality(cands) = 1 THEN Num(CHOOSE t \in cands : TRUE)
       ELSE Num(CHOOSE t \in cands : t % 2 = 0)

\* hourly_errors: per hour present, the error rate as the fraction
\* ErrorCount / Len; hourly_errors > hourly_errors.mean() * 2 compares
\*   e_h / n_h  >  2 * (sum over the H hours of e_g / n_g) / H,
\* here multiplied by H and by the product of the group sizes.
RECURSIVE Product(_, _)
Product(f, S) ==
    IF S = {} THEN 1
    ELSE LET x == CHOOSE x \in S : TRUE IN f[x] * Product(f, S \ {x})

RECURSIVE Total(_, _)
Total(f, S) ==
    IF S = {} THEN 0
    ELSE LET x == CHOOSE x \in S : TRUE IN f[x] + Total(f, S \ {x})

\* Faulty variant: every hour at or above the mean rate is a spike.
IsSpikeAtMean(data, h) ==
    LET hs == Hours(data)
        n == [g \in hs |-> Len(RowsOfHour(data, g))]
        e == [g \in hs |-> ErrorCount(RowsOfHour(data, g))]
        P == Product(n, hs)
        scaled == [g \in hs |-> e[g] * (P \div n[g])]
    IN Cardinality(hs) * scaled[h] >= Total(scaled, hs)

IsSpike(data, h) ==
    LET hs == Hours(data)
        n == [g \in hs |-> Len(RowsOfHour(data, g))]
        e == [g \in hs |-> ErrorCount(RowsOfHour(data, g))]
        P == Product(n, hs)
        scaled == [g \in hs |-> e[g] * (P \div n[g])]
    IN Cardinality(hs) * scaled[h] > 2 * Total(scaled, hs)

\* detect_anomalies: the keys computed from the request frame.
Anomalies(data) ==
    LET rt == Column(data, "response_time_ms")
        spikes == {h \in Hours(data) : IsSpike(data, h)}
    IN [slow_request_threshold_ms |-> SlowThreshold2(rt),
        slow_request_count |->
            Len(SelectSeq(rt, LAMBDA x : AboveThreshold(x, rt))),
        error_spike_hours |->
            [h \in spikes |-> ErrorRatePercent2(RowsOfHour(data, h))]]

\* time_range of the report: min and max of the request timestamps.
TimeRange(data) ==
    IF data = <<>> THEN "NaT"
    ELSE [start |-> SeqMin(Column(data, "timestamp")),
          end |-> SeqMax(Column(data, "timestamp"))]

\* Faulty variant: the request rate is taken over the time up to the clock.
ReportAtClockRate(req, srv, clock) ==
    [report_metadata |->
        [generated_at |-> clock,
         request_log_entries |-> req.rows,
         server_metric_entries |-> srv.rows,
         time_range |-> TimeRange(DataOf(req))],
     request_kpis |->
        [RequestKpis(DataOf(req)) EXCEPT !.requests_per_second =
            IF req.rows = 0 THEN NaN
            ELSE RequestsPerSecond2(req.rows,
                     SpanFloor(SpanTicks(DataOf(req)) + clock * TicksPerSecond))],
     server_kpis |-> ServerKpis(DataOf(srv)),
     traffic_patterns |-> TrafficPatterns(DataOf(req)),
     anomalies |-> Anomalies(DataOf(req))]

\* The report literal of generate_comprehensive_report, built at `clock`.
ReportAt(req, srv, clock) ==
    [report_metadata |->
        [generated_at |-> clock,
         request_log_entries |-> req.rows,
         server_metric_entries |-> srv.rows,
         time_range |-> TimeRange(DataOf(req))],
     request_kpis |-> RequestKpis(DataOf(req)),
     server_kpis |-> ServerKpis(DataOf(srv)),
     traffic_patterns |-> TrafficPatterns(DataOf(req)),
     anomalies |-> Anomalies(DataOf(req))]

DaysPerWeek == 7
DayOf(ts) == (ts \div (TicksPerSecond * SecondsPerHour * HoursPerDay)) % DaysPerWeek

\* df['hour'] = df['timestamp'].dt.hour
\* df['day_of_week'] = df['timestamp'].dt.day_name()
WithDerivedColumns(data) ==
    [k \in 1..Len(data) |->
        [timestamp |-> data[k].timestamp,
         response_time_ms |-> data[k].response_time_ms,
         status_code |-> data[k].status_code,
         hour |-> HourOf(data[k].timestamp),
         day_of_week |-> DayOf(data[k].timestamp)]]

\* Faulty variant: df is the engine's frame itself.
WorkingFrameShared(frame) == [shared |-> TRUE, data |-> DataOf(frame)]

\* df = self.request_logs_df.copy()
WorkingFrame(frame) == [shared |-> FALSE, data |-> DataOf(frame)]

\* The engine's request frame after compute_traffic_patterns assigned the
\* two columns to df (ran: the assignments were reached).
TrafficFrameEffect(frame, ran) ==
    IF ran /\ WorkingFrame(frame).shared /\ "data" \in DOMAIN frame
    THEN [frame EXCEPT !.data = WithDerivedColumns(WorkingFrame(frame).data)]
    ELSE frame

\* An engine call with the value it returned.  `earlier` is what the
\* caller keeps: the first report it received, <<>> before it.
NoValue == "none"
NoReport == <<>>

ValueCall(op, outcome, value, earlier) ==
    [op |-> op, outcome |-> outcome, value |-> value, earlier |-> earlier]

Computed(op, error, value, earlier) ==
    IF error = "none" THEN ValueCall(op, "returned", value, earlier)
    ELSE ValueCall(op, error, NoValue, earlier)

\* The exception of the division in compute_request_kpis, after the
\* exceptions of the reads before it.
RequestKpisFailure(req, lib) ==
    IF RequestKpisError(req, lib) # "none" THEN RequestKpisError(req, lib)
    ELSE IF req.rows > 0 /\ SpanFloor(SpanTicks(DataOf(req))) = 0
    THEN "ZeroDivisionError"
    ELSE "none"

RequestKpisCall ==
    /\ engine_call.op = "none"
    /\ engine_call' = Computed("compute_request_kpis",
            RequestKpisFailure(request_logs_df, pandas),
            RequestKpis(DataOf(request_logs_df)), engine_call.earlier)
    /\ UNCHANGED <<request_logs_df, server_metrics_df, pandas>>

ServerKpisCall ==
    /\ engine_call.op = "none"
    /\ engine_call' = Computed("compute_server_kpis",
            ServerKpisError(server_metrics_df, pandas),
            ServerKpis(DataOf(server_metrics_df)), engine_call.earlier)
    /\ UNCHANGED <<request_logs_df, server_metrics_df, pandas>>

TrafficPatternsCall ==
    /\ engine_call.op = "none"
    /\ engine_call' = Computed("compute_traffic_patterns",
            TrafficPatternsError(request_logs_df, pandas),
            TrafficPatterns(WorkingFrame(request_logs_df).data), engine_call.earlier)
    /\ request_logs_df' = TrafficFrameEffect(request_logs_df,
            TrafficPatternsError(request_logs_df, pandas) = "none")
    /\ UNCHANGED <<server_metrics_df, pandas>>

AnomaliesCall ==
    /\ engine_call.op = "none"
    /\ engine_call' = Computed("detect_anomalies",
            AnomaliesError(request_logs_df, server_metrics_df, pandas),
            Anomalies(DataOf(request_logs_df)), engine_call.earlier)
    /\ UNCHANGED <<request_logs_df, server_metrics_df, pandas>>

\* The exception generate_comprehensive_report raises, "none" for a report.
ReportFailure(req, srv, lib) ==
    IF EitherAbsent(req, srv) THEN "ValueError"
    ELSE LET entries == ReportEntries(req, srv, lib)
             failed == FirstFailure(entries)
         IN IF failed # 0 /\ failed <= 2 THEN entries[failed].error
            ELSE IF RequestKpisFailure(req, lib) # "none"
            THEN RequestKpisFailure(req, lib)
            ELSE IF failed # 0 THEN entries[failed].error
            ELSE "none"

\* The report reached compute_traffic_patterns, its fourth entry, and that
\* call assigned its columns.
TrafficRan(req, srv, lib) ==
    /\ ~EitherAbsent(req, srv)
    /\ FirstFailure(ReportEntries(req, srv, lib)) \in {0, 5}
    /\ RequestKpisFailure(req, lib) = "none"

ReportCall ==
    /\ engine_call.op = "none"
    /\ LET error == ReportFailure(request_logs_df, server_metrics_df, pandas)
           report == ReportAt(request_logs_df, server_metrics_df, now)
       IN engine_call' = Computed("generate_comprehensive_report", error, report,
              IF error = "none" /\ engine_call.earlier = NoReport
              THEN <<report>> ELSE engine_call.earlier)
    /\ request_logs_df' = TrafficFrameEffect(request_logs_df,
            TrafficRan(request_logs_df, server_metrics_df, pandas))
    /\ UNCHANGED <<server_metrics_df, pandas>>

\* The caller has the value (or the exception) of its engine call.
ValueReturn ==
    /\ engine_call.op # "none"
    /\ engine_call' = ValueCall("none", "none", NoValue, engine_call.earlier)
    /\ UNCHANGED <<request_logs_df, server_metrics_df, pandas>>

\* The tables the engine is given: sequences of up to MaxTableRows rows.
\* The values leave out those whose mean falls exactly between two
\* hundredths, where the binary fraction decides the rounding.
ResponseTimes == {100, 104, 204, 304}
Timestamps == {0, 1, 3, 7200, 14400, 172800}
StatusCodes == {399, 400}
Usages == {79996, 80000, 80004, 81000}

SeqsUpTo(S, n) == UNION {[1..k -> S] : k \in 0..n}

\* Rows that differ in latency alone, rows that differ in time and status,
\* and server rows of two servers.
LatencyRows == {RequestRow(0, rt, 200) : rt \in ResponseTimes}
TrafficRows == {RequestRow(ts, 100, sc) : ts \in Timestamps, sc \in StatusCodes}
CpuRows == {ServerRow(id, u, 50000) : id \in {"web-1", "web-2"}, u \in Usages}
MemoryRows == {ServerRow("web-1", 50000, u) : u \in Usages}

DefaultRequestTable == <<RequestRow(0, 100, 200)>>
DefaultServerTable == <<ServerRow("web-1", 50000, 50000)>>

TableInputs ==
    ((SeqsUpTo(LatencyRows, MaxTableRows) \cup SeqsUpTo(TrafficRows, MaxTableRows))
        \X {DefaultServerTable})
    \cup ({DefaultRequestTable}
        \X (SeqsUpTo(CpuRows, MaxTableRows) \cup SeqsUpTo(MemoryRows, MaxTableRows)))

\* The tables of the report runs.
ReportTableInputs ==
    SeqsUpTo(LatencyRows \cup {RequestRow(3, 204, 400), RequestRow(7200, 104, 400)},
             MaxReportRows)
    \X SeqsUpTo({ServerRow("web-1", 80004, 80008), ServerRow("web-2", 50000, 80000)},
                MaxReportRows)

\* ------------------------------------------------------------------ pipeline
\* ObservabilityOrchestrator.  A warehouse operation the orchestrator calls
\* is taken whole: a bulk insert returns with all its rows committed or
\* raises with none, after its attempts.
WarehouseOp(op, ok, id) == [op |-> op, ok |-> ok, id |-> id]

\* The steps of a run, in order, that apply to its configuration.
ApplicableSteps(store) ==
    IF store
    THEN <<"infrastructure_validation", "database_schema_setup",
           "data_generation", "analytics_processing">>
    ELSE <<"infrastructure_validation", "data_generation", "analytics_processing">>

\* Faulty variant: the database is probed whatever the configuration.
CheckDatabaseAlways(store) == TRUE

\* validate_infrastructure(check_database=store_in_database)
CheckDatabase(store) == store

\* "except Exception as e": the run ends with success False and str(e)
\* among the errors.
PipelineFailed(r, message) ==
    [r EXCEPT !.pc = "done", !.outcome = "returned",
              !.has_success = TRUE, !.success = FALSE,
              !.errors = Append(@, message)]

\* Faulty variant: the outcome of a step is not looked at.
StepOutcomeIgnored(r, ok, step, message, next) ==
    [r EXCEPT !.pc = next, !.steps_completed = Append(@, step)]

\* A step of the try block: it is appended to steps_completed and the
\* run goes on, or its exception ends the run.
StepOutcome(r, ok, step, message, next) ==
    IF ok THEN [r EXCEPT !.pc = next, !.steps_completed = Append(@, step)]
    ELSE PipelineFailed(r, message)

\* run_complete_pipeline is called: the results dictionary is set up.
StartPipeline(store) ==
    /\ pipeline.pc = "idle"
    /\ pipeline' = [NoPipeline EXCEPT !.pc = "validate", !.store_in_database = store]
    /\ UNCHANGED <<retry_attempts, batch_size, tables, now, ncalls, call,
                   request_logs_df, server_metrics_df, engine_call, pandas>>

\* Step 1, validate_infrastructure: test_connection when the database is
\* to be checked, then a write to the data directory.
ValidateInfrastructure(probeFail, dirOk) ==
    /\ pipeline.pc = "validate"
    /\ LET r == pipeline
           probed == CheckDatabase(r.store_in_database)
           connected == ProbeOutcome(probeFail) = "returned" /\ ProbeReturns(probeFail)
           ok == (probed => connected) /\ dirOk
           r1 == IF probed
                 THEN [r EXCEPT !.ops = Append(@,
                          WarehouseOp("test_connection", connected, ncalls + 1))]
                 ELSE r
       IN /\ pipeline' = StepOutcome(r1, ok, "infrastructure_validation",
                 "Infrastructure validation failed",
                 IF r.store_in_database THEN "schema" ELSE "generate")
          /\ ncalls' = IF probed THEN ncalls + 1 ELSE ncalls
    /\ UNCHANGED <<retry_attempts, batch_size, tables, now, call,
                   request_logs_df, server_metrics_df, engine_call, pandas>>

\* Step 2, setup_database_schema: create_database_schema, its exception
\* turned into False.
SetupDatabaseSchema(failAt) ==
    /\ pipeline.pc = "schema"
    /\ LET ok == SchemaError(DOMAIN tables, failAt) = "none"
           r1 == [pipeline EXCEPT
                     !.ops = Append(@, WarehouseOp("create_database_schema", ok, ncalls + 1))]
       IN /\ pipeline' = StepOutcome(r1, ok, "database_schema_setup",
                 "Database schema setup failed", "generate")
          /\ tables' = SchemaCommitted(tables, failAt)
          /\ ncalls' = ncalls + 1
    /\ UNCHANGED <<retry_attempts, batch_size, now, call,
                   request_logs_df, server_metrics_df, engine_call, pandas>>

\* Step 3, generate_synthetic_data: the files are written, n request
\* records among them, or the exception is raised again.
GenerateSyntheticData(ok, n) ==
    /\ pipeline.pc = "generate"
    /\ LET r1 == IF ok THEN [pipeline EXCEPT !.has_data_files = TRUE, !.records = n]
                 ELSE pipeline
       IN pipeline' = StepOutcome(r1, ok, "data_generation",
              "data generation", "analytics")
    /\ UNCHANGED <<retry_attempts, batch_size, tables, now, ncalls, call,
                   request_logs_df, server_metrics_df, engine_call, pandas>>

\* Where process_analytics fails: in load_data at the first or at the
\* second file, in the report, in save_report, or nowhere.
AnalyticsFailPoints == {"none", "load_requests", "load_metrics", "report", "save"}

\* Step 4, process_analytics: load_data, generate_comprehensive_report,
\* save_report; then the analytics_summary.
ProcessAnalytics(failAt) ==
    /\ pipeline.pc = "analytics"
    /\ LET ok == failAt = "none"
           r1 == IF ok THEN [pipeline EXCEPT !.has_summary = TRUE] ELSE pipeline
       IN /\ pipeline' = StepOutcome(r1, ok, "analytics_processing",
                 "analytics processing",
                 IF pipeline.store_in_database THEN "store_requests" ELSE "finish")
          /\ request_logs_df' =
                 IF failAt = "load_requests" THEN request_logs_df
                 ELSE Frame(pipeline.records, "none")
          /\ server_metrics_df' =
                 IF failAt \in {"load_requests", "load_metrics"} THEN server_metrics_df
                 ELSE Frame(1, "none")
    /\ UNCHANGED <<retry_attempts, batch_size, tables, now, ncalls, call,
                   engine_call, pandas>>

\* The table after a bulk insert of n records by call id: the rows are
\* there when the insert returned, none of them when it raised.
InsertedAll(tbls, tb, id, n, ok) ==
    IF ok THEN [tbls EXCEPT ![tb] = @ \o [k \in 1..n |-> Row(id, k, now)]]
    ELSE tbls

\* Faulty variant: the next write is made whatever the one before did.
AfterWriteAlways(ok, next) == next

\* A write of store_data_warehouse that raises ends the method in its
\* except clause, which returns False.
AfterWrite(ok, next) == IF ok THEN next ELSE "finish"

\* store_data_warehouse, first write: insert_request_logs.
StoreRequestLogs(ok) ==
    /\ pipeline.pc = "store_requests"
    /\ tables' = InsertedAll(tables, "RequestLogs", ncalls + 1, pipeline.records, ok)
    /\ ncalls' = ncalls + 1
    /\ pipeline' = [pipeline EXCEPT
          !.pc = AfterWrite(ok, "store_metrics"),
          !.ops = Append(@, WarehouseOp("insert_request_logs", ok, ncalls + 1)),
          !.stored = TRUE, !.warehouse_success = FALSE]
    /\ UNCHANGED <<retry_attempts, batch_size, now, call,
                   request_logs_df, server_metrics_df, engine_call, pandas>>

\* Second write: insert_server_metrics.
StoreServerMetrics(ok) ==
    /\ pipeline.pc = "store_metrics"
    /\ tables' = InsertedAll(tables, "ServerMetrics", ncalls + 1, 1, ok)
    /\ ncalls' = ncalls + 1
    /\ pipeline' = [pipeline EXCEPT
          !.pc = AfterWrite(ok, "store_report"),
          !.ops = Append(@, WarehouseOp("insert_server_metrics", ok, ncalls + 1))]
    /\ UNCHANGED <<retry_attempts, batch_size, now, call,
                   request_logs_df, server_metrics_df, engine_call, pandas>>

\* Third write: store_analytics_report, whose value store_data_warehouse
\* returns.
StoreReport(failAt) ==
    /\ pipeline.pc = "store_report"
    /\ tables' = [tables EXCEPT !["AnalyticsReports"] =
                     @ \o StoreCommitted(Row(ncalls + 1, pipeline.records, now), failAt)]
    /\ ncalls' = ncalls + 1
    /\ pipeline' = [pipeline EXCEPT
          !.pc = "finish",
          !.ops = Append(@, WarehouseOp("store_analytics_report", StoreReturns(failAt),
                                              ncalls + 1)),
          !.warehouse_success = StoreReturns(failAt)]
    /\ UNCHANGED <<retry_attempts, batch_size, now, call,
                   request_logs_df, server_metrics_df, engine_call, pandas>>

\* The end of the try block: the storage step or its error is recorded,
\* success is set to True and the results are returned.
FinishPipeline ==
    /\ pipeline.pc = "finish"
    /\ LET r == pipeline
           r1 == IF ~r.stored THEN r
                 ELSE IF r.warehouse_success
                 THEN [r EXCEPT !.steps_completed = Append(@, "data_warehouse_storage")]
                 ELSE [r EXCEPT !.errors = Append(@, "Data warehouse storage failed")]
       IN pipeline' = [r1 EXCEPT !.pc = "done", !.outcome = "returned",
                                 !.has_success = TRUE, !.success = TRUE]
    /\ UNCHANGED <<retry_attempts, batch_size, tables, now, ncalls, call,
                   request_logs_df, server_metrics_df, engine_call, pandas>>

\* ------------------------------------------------------------------ specifications
vars == <<retry_attempts, batch_size, tables, now, ncalls, call,
          request_logs_df, server_metrics_df, engine_call, pandas, pipeline>>

\* The warehouse on its own: one thread calls it, the engine is not used.
Init ==
    /\ InitWarehouse
    /\ request_logs_df = None
    /\ server_metrics_df = None
    /\ engine_call = NoEngineCall
    /\ pandas = [empty_timestamp_raises |-> TRUE, empty_groupby_raises |-> TRUE]
    /\ pipeline = NoPipeline

Next ==
    \/ (\E op \in BulkOps, n \in 0..MaxRecords : CallInsert(1, op, n))
          /\ UNCHANGED engVars
    \/ ConnectOk(1) /\ UNCHANGED engVars
    \/ ConnectFail(1) /\ UNCHANGED engVars
    \/ ExecuteOk(1) /\ UNCHANGED engVars
    \/ ExecuteFail(1) /\ UNCHANGED engVars
    \/ CommitOk(1) /\ UNCHANGED engVars
    \/ CommitFail(1) /\ UNCHANGED engVars
    \/ Backoff(1) /\ UNCHANGED engVars
    \/ (\E rd \in ReportInputs, f \in StoreFailPoints : StoreAnalyticsReport(1, rd, f))
          /\ UNCHANGED engVars
    \/ (\E days \in 0..MaxRetention, f \in CleanupFailPoints : CleanupOldData(1, days, f))
          /\ UNCHANGED engVars
    \/ Finish(1) /\ UNCHANGED engVars
    \/ Tick /\ UNCHANGED engVars

Spec == Init /\ [][Next]_vars

\* The engine on its own, beside a warehouse built with the defaults.
EngineInit ==
    /\ InitEngine
    /\ retry_attempts = DefaultRetryAttempts
    /\ batch_size = DefaultBatchSize
    /\ tables = [tb \in TableNames |-> <<>>]
    /\ now = 1
    /\ ncalls = 0
    /\ call = [t \in Threads |-> IdleCall]

EngineNext ==
    \/ (\E rs \in RequestSources, ss \in ServerSources : LoadData(rs, ss))
          /\ UNCHANGED whVars
    \/ ComputeRequestKpis /\ UNCHANGED whVars
    \/ ComputeServerKpis /\ UNCHANGED whVars
    \/ ComputeTrafficPatterns /\ UNCHANGED whVars
    \/ DetectAnomalies /\ UNCHANGED whVars
    \/ GenerateComprehensiveReport /\ UNCHANGED whVars
    \/ EngineReturn /\ UNCHANGED whVars

SpecEngine == EngineInit /\ [][EngineNext]_vars

\* Two threads inside a bulk insert each, on one warehouse object: each has
\* entered _batch_insert with its own records (total_inserted = 0, first
\* attempt); the steps of the two calls interleave in any order.
Entered(op, id, n) ==
    [IdleCall EXCEPT !.op = op, !.id = id, !.records = [k \in 1..n |-> k],
                     !.pc = "attempt", !.total_inserted = 0, !.attempt = 0]

ConcurrentInit ==
    /\ retry_attempts \in 1..MaxConcurrentRetry
    /\ batch_size \in 1..MaxBatch
    /\ tables = [tb \in TableNames |-> <<>>]
    /\ now = 1
    /\ ncalls = Cardinality(Threads)
    /\ \E ops \in [Threads -> BulkOps], ns \in [Threads -> 1..MaxConcurrentRecords] :
          call = [t \in Threads |-> Entered(ops[t], t, ns[t])]
    /\ request_logs_df = None
    /\ server_metrics_df = None
    /\ engine_call = NoEngineCall
    /\ pandas = [empty_timestamp_raises |-> TRUE, empty_groupby_raises |-> TRUE]
    /\ pipeline = NoPipeline

ConcurrentNext ==
    \/ (\E t \in Threads : ConnectOk(t)) /\ UNCHANGED engVars
    \/ (\E t \in Threads : ConnectFail(t)) /\ UNCHANGED engVars
    \/ (\E t \in Threads : ExecuteOk(t)) /\ UNCHANGED engVars
    \/ (\E t \in Threads : ExecuteFail(t)) /\ UNCHANGED engVars
    \/ (\E t \in Threads : CommitOk(t)) /\ UNCHANGED engVars
    \/ (\E t \in Threads : CommitFail(t)) /\ UNCHANGED engVars
    \/ (\E t \in Threads : Backoff(t)) /\ UNCHANGED engVars

SpecConcurrent == ConcurrentInit /\ [][ConcurrentNext]_vars

\* A warehouse built with any integers for retry_attempts and batch_size:
\* the constructor stores what it is given.
ConfigValues == (0 - MaxConfig)..(MaxConfig + 1)

ConfigInit ==
    /\ retry_attempts \in ConfigValues
    /\ batch_size \in ConfigValues
    /\ tables = [tb \in TableNames |-> <<>>]
    /\ now = 1
    /\ ncalls = 0
    /\ call = [t \in Threads |-> IdleCall]
    /\ request_logs_df = None
    /\ server_metrics_df = None
    /\ engine_call = NoEngineCall
    /\ pandas = [empty_timestamp_raises |-> TRUE, empty_groupby_raises |-> TRUE]
    /\ pipeline = NoPipeline

ConfigNext ==
    \/ (\E op \in BulkOps, n \in 0..MaxConfigRecords : CallInsert(1, op, n))
          /\ UNCHANGED engVars
    \/ ConnectOk(1) /\ UNCHANGED engVars
    \/ ConnectFail(1) /\ UNCHANGED engVars
    \/ ExecuteOk(1) /\ UNCHANGED engVars
    \/ ExecuteFail(1) /\ UNCHANGED engVars
    \/ CommitOk(1) /\ UNCHANGED engVars
    \/ CommitFail(1) /\ UNCHANGED engVars
    \/ Backoff(1) /\ UNCHANGED engVars

SpecConfig == ConfigInit /\ [][ConfigNext]_vars

\* A warehouse object on a database in which any of the managed tables may
\* exist already, with or without rows; the schema is set up and the
\* connection probed, in any order.
SchemaInit ==
    /\ retry_attempts = DefaultRetryAttempts
    /\ batch_size = DefaultBatchSize
    /\ \E existing \in SUBSET TableNames, pre \in PreloadChoices :
          tables = [tb \in existing |->
                      IF tb \in pre THEN <<Row(0, 1, 0), Row(0, 2, 1)>> ELSE <<>>]
    /\ now = 1
    /\ ncalls = 0
    /\ call = [t \in Threads |-> IdleCall]
    /\ request_logs_df = None
    /\ server_metrics_df = None
    /\ engine_call = NoEngineCall
    /\ pandas = [empty_timestamp_raises |-> TRUE, empty_groupby_raises |-> TRUE]
    /\ pipeline = NoPipeline

SchemaNext ==
    \/ (\E f \in SchemaFailPoints : CreateDatabaseSchema(1, f)) /\ UNCHANGED engVars
    \/ (\E f \in ProbeFailPoints : TestConnection(1, f)) /\ UNCHANGED engVars
    \/ Finish(1) /\ UNCHANGED engVars

SpecSchema == SchemaInit /\ [][SchemaNext]_vars

\* The engine with its tables loaded, computing on them.
AnalyticsInit ==
    /\ \E pair \in TableInputs :
          /\ request_logs_df = Table(pair[1])
          /\ server_metrics_df = Table(pair[2])
    /\ engine_call = ValueCall("none", "none", NoValue, NoReport)
    /\ pandas \in [empty_timestamp_raises : BOOLEAN, empty_groupby_raises : BOOLEAN]
    /\ pipeline = NoPipeline
    /\ retry_attempts = DefaultRetryAttempts
    /\ batch_size = DefaultBatchSize
    /\ tables = [tb \in TableNames |-> <<>>]
    /\ now = 1
    /\ ncalls = 0
    /\ call = [t \in Threads |-> IdleCall]

AnalyticsNext ==
    \/ RequestKpisCall /\ UNCHANGED whVars
    \/ ServerKpisCall /\ UNCHANGED whVars
    \/ TrafficPatternsCall /\ UNCHANGED whVars
    \/ AnomaliesCall /\ UNCHANGED whVars
    \/ ValueReturn /\ UNCHANGED whVars

SpecAnalytics == AnalyticsInit /\ [][AnalyticsNext]_vars

\* Reports assembled one after the other while the clock runs.
ReportNext ==
    \/ ReportCall /\ UNCHANGED whVars
    \/ ValueReturn /\ UNCHANGED whVars
    \/ Tick /\ UNCHANGED engVars

ReportInit ==
    /\ \E pair \in ReportTableInputs :
          /\ request_logs_df = Table(pair[1])
          /\ server_metrics_df = Table(pair[2])
    /\ engine_call = ValueCall("none", "none", NoValue, NoReport)
    /\ pandas \in [empty_timestamp_raises : BOOLEAN, empty_groupby_raises : BOOLEAN]
    /\ pipeline = NoPipeline
    /\ retry_attempts = DefaultRetryAttempts
    /\ batch_size = DefaultBatchSize
    /\ tables = [tb \in TableNames |-> <<>>]
    /\ now = 1
    /\ ncalls = 0
    /\ call = [t \in Threads |-> IdleCall]

SpecReport == ReportInit /\ [][ReportNext]_vars

\* The engine with its tables loaded, its five computations called in any
\* order.
FramesNext ==
    \/ RequestKpisCall /\ UNCHANGED whVars
    \/ ServerKpisCall /\ UNCHANGED whVars
    \/ TrafficPatternsCall /\ UNCHANGED whVars
    \/ AnomaliesCall /\ UNCHANGED whVars
    \/ ReportCall /\ UNCHANGED whVars
    \/ ValueReturn /\ UNCHANGED whVars

SpecFrames == ReportInit /\ [][FramesNext]_vars

\* One run of the pipeline, with or without the database, on a database
\* that has the managed tables or not, with rows or without.
PipelineInit ==
    /\ retry_attempts = DefaultRetryAttempts
    /\ batch_size = DefaultBatchSize
    /\ \E existing \in SUBSET TableNames, pre \in PreloadChoices :
          tables = [tb \in existing |->
                      IF tb \in pre THEN <<Row(0, 1, 0), Row(0, 2, 1)>> ELSE <<>>]
    /\ now = 1
    /\ ncalls = 0
    /\ call = [t \in Threads |-> IdleCall]
    /\ request_logs_df = None
    /\ server_metrics_df = None
    /\ engine_call = NoEngineCall
    /\ pandas = [empty_timestamp_raises |-> TRUE, empty_groupby_raises |-> TRUE]
    /\ pipeline = NoPipeline

PipelineNext ==
    \/ \E store \in BOOLEAN : StartPipeline(store)
    \/ \E f \in ProbeFailPoints, dirOk \in BOOLEAN : ValidateInfrastructure(f, dirOk)
    \/ \E f \in SchemaFailPoints : SetupDatabaseSchema(f)
    \/ \E ok \in BOOLEAN, n \in 1..MaxPipelineRecords : GenerateSyntheticData(ok, n)
    \/ \E f \in AnalyticsFailPoints : ProcessAnalytics(f)
    \/ \E ok \in BOOLEAN : StoreRequestLogs(ok)
    \/ \E ok \in BOOLEAN : StoreServerMetrics(ok)
    \/ \E f \in StoreFailPoints : StoreReport(f)
    \/ FinishPipeline

SpecPipeline == PipelineInit /\ [][PipelineNext]_vars

\* ------------------------------------------------------------------ claims
\* The committed rows of table tb that call `id` wrote, and their records.
RowsOf(tb, id) == SelectSeq(tables[tb], LAMBDA r : r.src = id)
RecordsOf(rows) == [k \in 1..Len(rows) |-> rows[k].rec]

Returned(c) == c.pc = "done" /\ c.outcome = "returned"
Raised(c) == c.pc = "done" /\ c.outcome = "raised"

\* C1: whenever a bulk insert of a non-empty input of N records returns
\* normally, the returned count equals N, whatever attempts failed before
\* the successful one.
C1_ReturnedCountIsInputLength ==
    \A t \in Threads :
        LET c == call[t]
        IN (c.op \in BulkOps /\ Len(c.records) > 0 /\ Returned(c))
              => c.count = Len(c.records)

\* C2: a bulk insert never leaves a partial write: until it returns, and if
\* it raises, none of its records is committed; once it has returned,
\* exactly its N input records are committed to its table, each once and in
\* input order, rows of failed attempts neither kept nor duplicated.
C2_NoPartialWrite ==
    \A t \in Threads :
        LET c == call[t]
        IN c.op \in BulkOps =>
              /\ \A tb \in TableNames \ {TargetTable(c.op)} : RowsOf(tb, c.id) = <<>>
              /\ IF Returned(c)
                 THEN RecordsOf(RowsOf(TargetTable(c.op), c.id)) = c.records
                 ELSE RowsOf(TargetTable(c.op), c.id) = <<>>

\* A bulk insert of at least two records that returned after an attempt
\* had executed every row and failed at its commit.
C2_Witness ==
    \E t \in Threads :
        LET c == call[t]
        IN /\ c.op \in BulkOps /\ Returned(c)
           /\ Len(c.records) >= 2
           /\ c.failures >= 1
           /\ c.last_error.at = "commit"

\* C3: when every attempt fails, _batch_insert makes exactly retry_attempts
\* attempts, sleeps 2^attempt between consecutive attempts (1, 2, 4, ...)
\* and not after the last one, and raises the last attempt's error instead
\* of returning a count.
C3_RetryExhaustion ==
    \A t \in Threads :
        LET c == call[t]
        IN c.op \in BulkOps =>
              /\ Len(c.sleeps) = c.attempt
              /\ c.connects <= retry_attempts
              /\ \A k \in 1..Len(c.sleeps) : c.sleeps[k] = 2 ^ (k - 1)
              /\ \A k \in 1..(Len(c.sleeps) - 1) : c.sleeps[k] < c.sleeps[k + 1]
              /\ c.pc = "except" => c.last_error.attempt = c.attempt
              /\ Raised(c) <=> (c.pc = "done" /\ c.failures = retry_attempts)
              /\ Raised(c) =>
                    /\ c.connects = retry_attempts
                    /\ Len(c.sleeps) = retry_attempts - 1
                    /\ c.raised = c.last_error
                    /\ c.raised.attempt = retry_attempts - 1
                    /\ c.count = -1

\* A bulk insert that raised after three failed attempts.
C3_Witness ==
    \E t \in Threads :
        LET c == call[t]
        IN c.op \in BulkOps /\ Raised(c) /\ retry_attempts >= 3 /\ c.sleeps = <<1, 2>>

\* C4: a bulk insert of an empty list returns 0 at once: no connection, no
\* statement, no commit, no retry, no sleep, and the tables are as before.
C4_EmptyInputReturnsZero ==
    [][\A t \in Threads :
          (call[t].pc = "idle" /\ call'[t].op \in BulkOps /\ call'[t].records = <<>>)
             => /\ Returned(call'[t])
                /\ call'[t].count = 0
                /\ call'[t].connects = 0 /\ ~call'[t].connected
                /\ call'[t].executes = 0 /\ call'[t].commits = 0
                /\ call'[t].sleeps = <<>> /\ call'[t].failures = 0
                /\ tables' = tables]_vars

\* A bulk insert called with an empty list has returned.
C4_Witness ==
    \E t \in Threads :
        call[t].op \in BulkOps /\ call[t].records = <<>> /\ call[t].pc = "done"

\* C5: store_analytics_report connects once, executes at most one INSERT and
\* one commit, never retries, sleeps or raises; it returns True exactly when
\* nothing failed, and then its one row is stored; it returns False when the
\* connect, the INSERT or the commit failed, and then no row is stored.
C5_StoreReportSingleAttempt ==
    \A t \in Threads :
        LET c == call[t]
        IN (c.op = "store_analytics_report" /\ c.pc = "done") =>
              /\ c.connects = 1 /\ c.executes <= 1 /\ c.commits <= 1
              /\ c.sleeps = <<>> /\ c.failures <= 1
              /\ c.outcome = "returned"
              /\ c.ok <=> c.failures = 0
              /\ c.ok => /\ c.executes = 1 /\ c.commits = 1
                         /\ Len(RowsOf("AnalyticsReports", c.id)) = 1
              /\ ~c.ok => RowsOf("AnalyticsReports", c.id) = <<>>

\* store_analytics_report returned False because its commit failed.
C5_Witness ==
    \E t \in Threads :
        LET c == call[t]
        IN /\ c.op = "store_analytics_report" /\ c.pc = "done" /\ ~c.ok
           /\ c.last_error.at = "commit"

\* C6: cleanup_old_data runs its four deletes in one transaction with one
\* commit at the end; when the connect, a delete or the commit fails, the
\* call raises and every table is exactly as before the call.
C6_CleanupAllOrNothing ==
    [][\A t \in Threads :
          (call[t].pc = "idle" /\ call'[t].op = "cleanup_old_data")
             => /\ call'[t].connects = 1 /\ call'[t].commits <= 1
                /\ call'[t].failures = 0 =>
                      call'[t].executes = 4 /\ call'[t].commits = 1
                /\ call'[t].failures # 0 =>
                      Raised(call'[t]) /\ tables' = tables]_vars

\* cleanup_old_data raised after a delete on an earlier table had matched
\* rows.
C6_Witness ==
    \E t \in Threads :
        LET c == call[t]
        IN /\ c.op = "cleanup_old_data" /\ Raised(c)
           /\ c.last_error.at \in TableNames
           /\ \E tb \in DOMAIN c.cleanup_results : c.cleanup_results[tb] > 0

\* C7: a successful cleanup_old_data(retention_days) removes from each table
\* exactly the rows created strictly before now - retention_days, keeps
\* the others, and returns per table the number of rows it removed; with a
\* window larger than the age of the oldest row every count is 0 and no
\* table changes.
C7_CleanupDeletesExactlyOld ==
    [][\A t \in Threads :
          (call[t].pc = "idle" /\ call'[t].op = "cleanup_old_data"
             /\ Returned(call'[t]))
             => LET days == call'[t].retention_days
                    res == call'[t].cleanup_results
                IN /\ DOMAIN res = TableNames
                   /\ \A tb \in TableNames :
                         /\ tables'[tb] = SelectSeq(tables[tb],
                               LAMBDA r : r.created_at >= now - days)
                         /\ res[tb] = Len(tables[tb]) - Len(tables'[tb])
                   /\ (\A tb \in TableNames : \A k \in 1..Len(tables[tb]) :
                          now - tables[tb][k].created_at < days)
                        => /\ tables' = tables
                           /\ \A tb \in TableNames : res[tb] = 0]_vars

\* A successful cleanup removed a row from a table and kept a row created
\* exactly at the cutoff.
C7_Witness ==
    \E t \in Threads :
        LET c == call[t]
        IN /\ c.op = "cleanup_old_data" /\ Returned(c)
           /\ \E tb \in TableNames :
                 /\ c.cleanup_results[tb] > 0
                 /\ \E k \in 1..Len(tables[tb]) :
                       tables[tb][k].created_at = now - c.retention_days

\* The frames a computation requires.
NeedsRequest(op) ==
    op \in {"compute_request_kpis", "compute_traffic_patterns",
            "detect_anomalies", "generate_comprehensive_report"}
NeedsServer(op) ==
    op \in {"compute_server_kpis", "detect_anomalies",
            "generate_comprehensive_report"}

\* C8: a computation called while a frame it requires is None raises
\* ValueError at once, produces no result and leaves both frames as they
\* were.
C8_AbsentDataIsPreconditionError ==
    [][(/\ engine_call.op = "none"
        /\ engine_call'.op \in ComputeOps
        /\ \/ NeedsRequest(engine_call'.op) /\ ~request_logs_df.loaded
           \/ NeedsServer(engine_call'.op) /\ ~server_metrics_df.loaded)
          => /\ engine_call'.outcome = "ValueError"
             /\ engine_call'.parts = {}
             /\ request_logs_df' = request_logs_df
             /\ server_metrics_df' = server_metrics_df]_vars

\* detect_anomalies raised ValueError with the request logs loaded and the
\* server metrics absent.
C8_Witness ==
    /\ engine_call.op = "detect_anomalies"
    /\ engine_call.outcome = "ValueError"
    /\ request_logs_df.loaded
    /\ ~server_metrics_df.loaded

\* C9: a frame that was loaded with zero rows is a precondition failure:
\* every computation that requires it fails instead of returning a result.
C9_EmptyDataIsPreconditionError ==
    (/\ engine_call.op \in ComputeOps
     /\ \/ /\ NeedsRequest(engine_call.op)
           /\ request_logs_df.loaded /\ request_logs_df.rows = 0
        \/ /\ NeedsServer(engine_call.op)
           /\ server_metrics_df.loaded /\ server_metrics_df.rows = 0)
       => engine_call.outcome # "returned"

\* C10: generate_comprehensive_report returns a report with all five parts
\* or raises; when one of the four sub-computations fails, its exception
\* reaches the caller and no part of a report is returned.
C10_ReportFailFast ==
    engine_call.op = "generate_comprehensive_report" =>
        LET errors == {RequestKpisError(request_logs_df, pandas),
                       ServerKpisError(server_metrics_df, pandas),
                       TrafficPatternsError(request_logs_df, pandas),
                       AnomaliesError(request_logs_df, server_metrics_df, pandas)}
            all == {"report_metadata", "request_kpis", "server_kpis",
                    "traffic_patterns", "anomalies"}
        IN /\ engine_call.outcome = "returned" => engine_call.parts = all
           /\ engine_call.outcome # "returned" => engine_call.parts = {}
           /\ errors = {"none"} => engine_call.outcome = "returned"
           /\ errors # {"none"} => engine_call.outcome \in errors \ {"none"}

\* generate_comprehensive_report raised the KeyError of compute_server_kpis
\* after compute_request_kpis had succeeded.
C10_Witness ==
    /\ engine_call.op = "generate_comprehensive_report"
    /\ engine_call.outcome = "KeyError"
    /\ RequestKpisError(request_logs_df, pandas) = "none"
    /\ ServerKpisError(server_metrics_df, pandas) = "KeyError"

\* The engine call in progress returned a value.
ValueReturned(op) == engine_call.op = op /\ engine_call.outcome = "returned"

C12_HighUsageIsMeanAbove80 ==
    ValueReturned("compute_server_kpis") =>
        LET data == server_metrics_df.data
            MeanAbove80(id, col) ==
                SumSeq(Column(RowsOfServer(data, id), col))
                    > 80 * 1000 * Len(RowsOfServer(data, id))
        IN /\ engine_call.value.high_cpu_servers =
                 {id \in ServerIds(data) : MeanAbove80(id, "cpu_usage_percent")}
           /\ engine_call.value.high_memory_servers =
                 {id \in ServerIds(data) : MeanAbove80(id, "memory_usage_percent")}

\* C13: the slow-request threshold is mean + 3 x the population standard
\* deviation (divisor N) of response_time_ms: slow_request_threshold_ms is
\* that value rounded to 2 decimals, slow_request_count is the number of
\* records strictly above it, and the count is 0 when all response times
\* are equal, a single record included.
C13_SlowThresholdIsPopulationDeviation ==
    (ValueReturned("detect_anomalies") /\ request_logs_df.rows > 0) =>
        LET rt == Column(request_logs_df.data, "response_time_ms")
            n == Len(rt)
            S == SumSeq(rt)
            \* n^2 * 9 * (population variance) = 9 * Spread
            R2 == 9 * Spread(rt)
            Above(x) == n * x - S > 0 /\ (n * x - S) * (n * x - S) > R2
            t == engine_call.value.slow_request_threshold_ms.value
            lo == n * (10 * t - 5) - S
            hi == n * (10 * t + 5) - S
        IN /\ engine_call.value.slow_request_count
                 = Cardinality({k \in 1..n : Above(rt[k])})
           /\ (\A k \in 1..n : rt[k] = rt[1])
                 => engine_call.value.slow_request_count = 0
           /\ ~engine_call.value.slow_request_threshold_ms.nan
           /\ (lo <= 0 \/ lo * lo <= R2)
           /\ hi >= 0
           /\ R2 <= hi * hi

RECURSIVE Factorial(_)
Factorial(n) == IF n <= 1 THEN 1 ELSE n * Factorial(n - 1)

\* C14: error_spike_hours holds exactly the hours of the day present in
\* the request data whose error rate (the share of the hour's records with
\* status_code >= 400) is strictly greater than 2 x the unweighted mean of
\* the error rates of the hours present, each with its rate in percent
\* rounded to 2 decimals; with no status_code >= 400 the mapping is empty.
C14_ErrorSpikeHours ==
    (engine_call.op = "detect_anomalies" /\ request_logs_df.rows > 0) =>
        LET data == request_logs_df.data
            present == {(data[k].timestamp \div 7200) % 24 : k \in 1..Len(data)}
            InHour(h) == {k \in 1..Len(data) : (data[k].timestamp \div 7200) % 24 = h}
            Errors(h) == {k \in InHour(h) : data[k].status_code >= 400}
            \* the rate of hour h times Len(data)!, an integer
            Rate(h) == (Cardinality(Errors(h)) * Factorial(Len(data)))
                          \div Cardinality(InHour(h))
            RECURSIVE SumRates(_)
            SumRates(hs) ==
                IF hs = {} THEN 0
                ELSE LET h == CHOOSE h \in hs : TRUE
                     IN Rate(h) + SumRates(hs \ {h})
            spikes == {h \in present :
                         Cardinality(present) * Rate(h) > 2 * SumRates(present)}
        IN /\ engine_call.outcome = "returned"
           /\ DOMAIN engine_call.value.error_spike_hours = spikes
           /\ \A h \in spikes :
                 LET v == engine_call.value.error_spike_hours[h]
                     d == v * Cardinality(InHour(h)) - 100 * 100 * Cardinality(Errors(h))
                 IN 2 * d <= Cardinality(InHour(h)) /\ -2 * d <= Cardinality(InHour(h))
           /\ (\A k \in 1..Len(data) : data[k].status_code < 400)
                 => engine_call.value.error_spike_hours = <<>>

\* detect_anomalies flagged one of three hours present and not the others.
C14_Witness ==
    /\ ValueReturned("detect_anomalies")
    /\ Cardinality(Hours(request_logs_df.data)) >= 3
    /\ Cardinality(DOMAIN engine_call.value.error_spike_hours) = 1

\* C15: for a request frame with rows, error_rate_percent lies in
\* [0, 100] and is 100 x (records with status_code >= 400) / (records),
\* rounded to 2 decimals; 399 is not an error and 400 is.
C15_ErrorRatePercent ==
    (engine_call.op = "compute_request_kpis" /\ request_logs_df.rows > 0) =>
        LET data == request_logs_df.data
            n == Len(data)
            e == Cardinality({k \in 1..n : data[k].status_code >= 400})
            rate == engine_call.value.error_rate_percent
        IN /\ engine_call.outcome = "returned"
           /\ ~rate.nan
           /\ rate.value >= 0 /\ rate.value <= 100 * 100
           \* within half a hundredth of 100 * e / n
           /\ 2 * (rate.value * n - 100 * 100 * e) <= n
           /\ 2 * (100 * 100 * e - rate.value * n) <= n

\* The error rate of three records, one at 400 and two at 399: 33.33.
C15_Witness ==
    /\ ValueReturned("compute_request_kpis")
    /\ request_logs_df.rows = 3
    /\ Len(SelectSeq(request_logs_df.data, LAMBDA r : r.status_code = 400)) = 1
    /\ Len(SelectSeq(request_logs_df.data, LAMBDA r : r.status_code = 399)) = 2
    /\ engine_call.value.error_rate_percent = Num(3333)

\* C16: compute_request_kpis divides total_requests by max(span, 1), the
\* span being latest minus earliest timestamp in seconds: the denominator
\* is never below 1, records that share one timestamp or span less than a
\* second give requests_per_second = total_requests, and the call never
\* fails with a division by zero.
C16_RateDenominatorAtLeastOne ==
    engine_call.op = "compute_request_kpis" =>
        /\ engine_call.outcome # "ZeroDivisionError"
        /\ request_logs_df.rows > 0 =>
              LET data == request_logs_df.data
                  n == Len(data)
                  times == {data[k].timestamp : k \in 1..n}
                  earliest == CHOOSE a \in times : \A c \in times : a <= c
                  latest == CHOOSE b \in times : \A c \in times : c <= b
                  span == latest - earliest
                  \* the denominator in ticks of half a second
                  den == IF span < 2 THEN 2 ELSE span
                  rps == engine_call.value.requests_per_second
              IN /\ engine_call.outcome = "returned"
                 /\ engine_call.value.total_requests = n
                 /\ ~rps.nan
                 \* within half a hundredth of n / (den / 2)
                 /\ 2 * (rps.value * den - 100 * n * 2) <= den
                 /\ 2 * (100 * n * 2 - rps.value * den) <= den
                 /\ span <= 2 => rps.value = 100 * n
                 /\ rps.value <= 100 * n

\* Three records within half a second: requests_per_second = 3.0.
C16_Witness ==
    /\ ValueReturned("compute_request_kpis")
    /\ request_logs_df.rows = 3
    /\ SpanTicks(request_logs_df.data) = 1
    /\ engine_call.value.requests_per_second = Num(300)

C18_ConcurrentCallsIndependent ==
    \A t \in Threads :
        LET c == call[t]
            own == RowsOf(TargetTable(c.op), c.id)
        IN c.op \in BulkOps =>
              /\ Returned(c) => c.count = Len(c.records)
              /\ Returned(c) => RecordsOf(own) = c.records
              /\ ~Returned(c) => own = <<>>
              /\ \A tb \in TableNames \ {TargetTable(c.op)} : RowsOf(tb, c.id) = <<>>

\* C19: create_database_schema is idempotent: a call that returns leaves
\* the four managed tables; a table that exists before a call is there
\* after it with the rows it had; a call on a database that has the four
\* tables changes nothing, and a call the environment does not fail
\* returns, whichever tables exist.
C19_SchemaIdempotent ==
    [][\A t \in Threads :
          (call[t].pc = "idle" /\ call'[t].op = "create_database_schema")
             => /\ \A tb \in DOMAIN tables :
                      tb \in DOMAIN tables' /\ tables'[tb] = tables[tb]
                /\ Returned(call'[t]) =>
                      /\ DOMAIN tables' = TableNames
                      /\ \A tb \in TableNames \ DOMAIN tables : tables'[tb] = <<>>
                /\ DOMAIN tables = TableNames => tables' = tables
                /\ CreateDatabaseSchema(t, "none") => Returned(call'[t])
                /\ Raised(call'[t]) => tables' = tables]_vars

\* A second call in a row has returned on a database whose four tables
\* exist and hold rows.
C19_Witness ==
    \E t \in Threads :
        /\ call[t].op = "create_database_schema" /\ Returned(call[t])
        /\ call[t].id = 2
        /\ DOMAIN tables = TableNames
        /\ \A tb \in TableNames : Len(tables[tb]) = 2

\* C20: test_connection never raises: it returns True when the connect
\* and the probe query succeed and False on any failure, after one
\* connection attempt, without a retry or a sleep, and it changes no table.
C20_TestConnectionNeverRaises ==
    [][\A t \in Threads :
          (call[t].pc = "idle" /\ call'[t].op = "test_connection")
             => /\ Returned(call'[t])
                /\ call'[t].ok <=> call'[t].last_error = NoError
                /\ call'[t].ok => call'[t].executes = 1
                /\ call'[t].connects = 1 /\ call'[t].executes <= 1
                /\ call'[t].attempt = 0 /\ call'[t].sleeps = <<>>
                /\ tables' = tables]_vars

\* The probe has returned False after its SELECT failed, on a database
\* that holds rows.
C20_Witness ==
    \E t \in Threads :
        /\ call[t].op = "test_connection" /\ Returned(call[t])
        /\ ~call[t].ok /\ call[t].last_error.at = "execute"
        /\ \E tb \in DOMAIN tables : tables[tb] # <<>>

\* The batches of one attempt, in loop order.
BatchesOf(records, bs) ==
    [k \in 1..Cardinality(BatchStarts(Len(records), bs)) |->
        Batch(records, (k - 1) * bs, bs)]

RECURSIVE Concat(_)
Concat(ss) == IF ss = <<>> THEN <<>> ELSE Head(ss) \o Concat(Tail(ss))

\* C23: within an attempt the N records are cut into ceil(N / batch_size)
\* contiguous batches: each but the last has batch_size records, the last
\* has between 1 and batch_size, the batches in order make up the input,
\* and the records executed so far are the first ones of the input, each
\* once and in input order; all N once the attempt reaches its commit.
C23_BatchesPartitionInput ==
    \A t \in Threads :
        LET c == call[t]
            n == Len(c.records)
            bs == batch_size
            batches == BatchesOf(c.records, bs)
            nb == Len(batches)
        IN (c.op \in BulkOps /\ c.pc \in {"exec", "commit"}) =>
              /\ nb = (n + bs - 1) \div bs
              /\ \A k \in 1..(nb - 1) : Len(batches[k]) = bs
              /\ Len(batches[nb]) \in 1..bs
              /\ Concat(batches) = c.records
              /\ c.i \in BatchStarts(n, bs) \cup {nb * bs}
              /\ c.executes = Len(c.pending)
              /\ RecordsOf(c.pending) = SubSeq(c.records, 1, Min(c.i + c.j, n))
              /\ c.pc = "exec" => c.i \in BatchStarts(n, bs)
                                  /\ c.j < Len(Batch(c.records, c.i, bs))
              /\ c.pc = "commit" => RecordsOf(c.pending) = c.records

\* An attempt has executed the two batches of three records, the second
\* batch a short one, and stands at its commit.
C23_Witness ==
    \E t \in Threads :
        LET c == call[t]
        IN /\ c.op \in BulkOps /\ c.pc = "commit"
           /\ Len(c.records) = 3 /\ batch_size = 2
           /\ Len(BatchesOf(c.records, batch_size)) = 2
           /\ c.executes = 3

\* C24: an attempt writes all its batches in one transaction and issues
\* one commit, after the last record of the last batch was executed: no
\* commit is issued while records are still to be executed, and over the
\* whole call at most one commit succeeds, so the call's rows are in the
\* table only once the call has returned, and then all of them once.
C24_OneCommitPerAttempt ==
    \A t \in Threads :
        LET c == call[t]
            n == Len(c.records)
            own == RowsOf(TargetTable(c.op), c.id)
        IN (c.op \in BulkOps /\ n > 0) =>
              /\ c.commits <= 1
              /\ c.pc = "exec" => c.commits = 0
              /\ c.commits = 1 => c.executes = n
              /\ c.pc = "commit" => c.executes = n /\ Len(c.pending) = n
              /\ Returned(c) => c.commits = 1 /\ Len(own) = n
              /\ ~Returned(c) => own = <<>>

\* A call over two batches has returned from its second attempt, the
\* commit of the first attempt having failed.
C24_Witness ==
    \E t \in Threads :
        LET c == call[t]
        IN /\ c.op \in BulkOps /\ Returned(c)
           /\ Len(c.records) = 3 /\ batch_size = 2
           /\ c.failures = 1 /\ c.last_error.at = "commit"
           /\ c.commits = 1

\* C25: during a bulk insert at most one connection opened by the call is
\* open at any moment: the connection of an attempt is released before
\* the backoff sleep and before the next attempt connects, and none is
\* held when the call exits, by a return or by the exception of the last
\* attempt.
C25_ConnectionsReleased ==
    \A t \in Threads :
        LET c == call[t]
        IN c.op \in BulkOps =>
              /\ c.open <= 1 /\ c.open_max <= 1
              /\ c.pc \in {"except", "attempt"} => c.open = 0
              /\ c.pc = "done" => c.open = 0

\* C27: whatever integers retry_attempts and batch_size are, a bulk insert
\* of N > 0 records that returns has opened a connection, executed all N
\* records and committed them: its rows in the table are its records.
C27_ReturnMeansWritten ==
    \A t \in Threads :
        LET c == call[t]
        IN (c.op \in BulkOps /\ Len(c.records) > 0 /\ Returned(c)) =>
              /\ c.connects >= 1
              /\ c.executes = Len(c.records)
              /\ c.commits = 1
              /\ RecordsOf(RowsOf(TargetTable(c.op), c.id)) = c.records

\* C28: load_data is atomic: a call that raises leaves request_logs_df
\* and server_metrics_df as they were before the call.
C28_LoadDataAtomic ==
    [][(engine_call.op = "none" /\ engine_call'.op = "load_data"
           /\ engine_call'.outcome # "returned")
          => /\ request_logs_df' = request_logs_df
             /\ server_metrics_df' = server_metrics_df]_vars

\* What a computation returns on the frames req and srv at time clock.
ResultOf(op, req, srv, clock) ==
    CASE op = "compute_request_kpis" -> RequestKpis(DataOf(req))
      [] op = "compute_server_kpis" -> ServerKpis(DataOf(srv))
      [] op = "compute_traffic_patterns" -> TrafficPatterns(DataOf(req))
      [] op = "detect_anomalies" -> Anomalies(DataOf(req))
      [] OTHER -> ReportAt(req, srv, clock)

\* C26: each of the five computations leaves request_logs_df and
\* server_metrics_df as they were, rows and columns, and what it returns
\* is what it gives on these frames alone, whichever computations ran
\* before it.
C26_ComputationsLeaveFrames ==
    [][(engine_call.op = "none" /\ engine_call'.op \in ComputeOps)
          => /\ request_logs_df' = request_logs_df
             /\ server_metrics_df' = server_metrics_df
             /\ engine_call'.outcome = "returned" =>
                   engine_call'.value =
                      ResultOf(engine_call'.op, request_logs_df', server_metrics_df', now)]_vars

\* compute_request_kpis has returned on two request rows after a report
\* and compute_traffic_patterns ran on them.
C26_Witness ==
    /\ ValueReturned("compute_request_kpis")
    /\ engine_call.earlier # NoReport
    /\ request_logs_df.rows = 2
    /\ engine_call.value.total_requests = 2

InSeq(x, s) == \E k \in 1..Len(s) : s[k] = x
IsPrefix(s, full) == Len(s) <= Len(full) /\ s = SubSeq(full, 1, Len(s))
OpNames(ops) == [k \in 1..Len(ops) |-> ops[k].op]

\* C21: a run with store_in_database = True that returns success = True
\* has stored its data: data_warehouse_storage is among steps_completed and
\* errors is empty.
C21_SuccessMeansStored ==
    (pipeline.pc = "done" /\ pipeline.store_in_database /\ pipeline.success)
       => /\ InSeq("data_warehouse_storage", pipeline.steps_completed)
          /\ pipeline.errors = <<>>

\* C22: a run with store_in_database = False calls no warehouse operation,
\* and once data generation and analytics succeeded it returns success =
\* True with steps_completed = [infrastructure_validation, data_generation,
\* analytics_processing] and an analytics_summary, whatever the database
\* holds.
C22_NoDatabaseNoWarehouse ==
    (pipeline.pc # "idle" /\ ~pipeline.store_in_database)
       => /\ pipeline.ops = <<>>
          /\ ncalls = 0
          /\ \A tb \in DOMAIN tables : \A k \in 1..Len(tables[tb]) : tables[tb][k].src = 0
          /\ (pipeline.pc = "done" /\ pipeline.has_data_files /\ pipeline.has_summary)
                => /\ pipeline.success
                   /\ pipeline.steps_completed =
                         <<"infrastructure_validation", "data_generation",
                           "analytics_processing">>
                   /\ pipeline.errors = <<>>

\* A run without the database has returned success on a database that has
\* none of the managed tables.
C22_Witness ==
    /\ pipeline.pc = "done" /\ ~pipeline.store_in_database
    /\ pipeline.success /\ pipeline.has_summary
    /\ DOMAIN tables = {}

\* The writes of store_data_warehouse the run made so far.
StoreWrites ==
    SelectSeq(pipeline.ops, LAMBDA w : w.op \in BulkOps \cup {"store_analytics_report"})

\* C29: store_data_warehouse writes request logs, server metrics and the
\* report in this order, each write committed on its own: a write is made
\* only after the writes before it succeeded, the rows of a write that
\* succeeded stay whatever a later write does, the method returns (it does
\* not raise), and it returns True only when the three writes succeeded.
C29_StoreWritesInOrder ==
    LET w == StoreWrites
        rows(k) == RowsOf(TargetTable(w[k].op), w[k].id)
    IN /\ IsPrefix(OpNames(w),
              <<"insert_request_logs", "insert_server_metrics", "store_analytics_report">>)
       /\ \A k \in 1..(Len(w) - 1) : w[k].ok
       /\ \A k \in 1..Len(w) :
             Len(rows(k)) = IF ~w[k].ok THEN 0
                            ELSE IF w[k].op = "insert_request_logs" THEN pipeline.records
                            ELSE 1
       /\ (pipeline.stored /\ pipeline.pc \in {"finish", "done"})
             => (pipeline.warehouse_success <=> (Len(w) = 3 /\ \A k \in 1..3 : w[k].ok))
       /\ (pipeline.stored /\ pipeline.pc = "done") => pipeline.outcome = "returned"

\* The report write failed after both bulk inserts were committed.
C29_Witness ==
    /\ pipeline.pc = "finish" /\ pipeline.stored /\ ~pipeline.warehouse_success
    /\ Len(StoreWrites) = 3
    /\ Len(tables["RequestLogs"]) >= 2 /\ pipeline.records = 2

\* C30: run_complete_pipeline returns a result with a boolean success and
\* does not raise.  steps_completed is a prefix of the applicable steps,
\* followed by data_warehouse_storage at most when the prefix is the
\* whole; a step is in it only if it succeeded, and ran only after the
\* steps before it; a run whose step failed ends with success False,
\* errors, and no later step executed.
C30_StepsArePrefix ==
    LET r == pipeline
        steps == r.steps_completed
        all == ApplicableSteps(r.store_in_database)
        core == SelectSeq(steps, LAMBDA x : x # "data_warehouse_storage")
        ran(op) == \E k \in 1..Len(r.ops) : r.ops[k].op = op
        succeeded(op) == \E k \in 1..Len(r.ops) : r.ops[k].op = op /\ r.ops[k].ok
    IN /\ IsPrefix(core, all)
       /\ steps \in {core, Append(core, "data_warehouse_storage")}
       /\ steps # core => (core = all /\ r.store_in_database)
       /\ (InSeq("infrastructure_validation", steps) /\ r.store_in_database)
             => succeeded("test_connection")
       /\ InSeq("database_schema_setup", steps) <=> succeeded("create_database_schema")
       /\ InSeq("data_generation", steps) <=> r.has_data_files
       /\ InSeq("analytics_processing", steps) <=> r.has_summary
       /\ ran("create_database_schema") => InSeq("infrastructure_validation", steps)
       /\ r.has_data_files => Len(core) >= Len(all) - 1
       /\ request_logs_df.loaded => r.has_data_files
       /\ ran("insert_request_logs") => core = all
       /\ r.pc = "done" =>
             /\ r.outcome = "returned" /\ r.has_success
             /\ r.success <=> core = all
             /\ ~r.success => r.errors # <<>>

\* A run with the database has ended at its schema setup: success False,
\* one error, one step completed, no data generated.
C30_Witness ==
    /\ pipeline.pc = "done" /\ pipeline.store_in_database /\ ~pipeline.success
    /\ pipeline.steps_completed = <<"infrastructure_validation">>
    /\ Len(pipeline.errors) = 1
    /\ ~pipeline.has_data_files
====
